---- MODULE Spec2Model ----
(***************************************************************************)
(* State-machine model of the governed semantic layer: scenario-scored     *)
(* version selection, free-text object resolution, RBAC/ABAC policy        *)
(* evaluation and the orchestrator's query pipeline with its audit store.  *)
(***************************************************************************)
EXTENDS Integers, Sequences, FiniteSets, TLC

\* ------------------------------------------------------------------------
\* Bounds of the model
\* ------------------------------------------------------------------------
MaxTime == 3
MaxPriority == 1
MaxVersions == 3
MaxPolicies == 2
MaxObjects == 2
MaxCalls == 2
MaxReplays == 2
MaxMappings == 3
MaxAudits == 3

\* ------------------------------------------------------------------------
\* Python values
\* ------------------------------------------------------------------------
\* Python None / JSON null, as a scalar value
None == "None"
\* an absent datetime (Optional[datetime] = None); datetimes are 0..MaxTime
NoTime == 0 - 1

\* Optional[Dict]: none = TRUE is Python None, otherwise kv is the dict
NoneDict == [none |-> TRUE, kv |-> [k \in {} |-> None]]
Dict(f) == [none |-> FALSE, kv |-> f]
\* bool(d) for an Optional[Dict]: None and {} are falsy
Truthy(d) == ~d.none /\ DOMAIN d.kv # {}
\* d.get(key): None when the key is missing
Get(d, key) == IF key \in DOMAIN d.kv THEN d.kv[key] ELSE None

Keys == {"k1", "k2"}
Vals == {"a", "b", None}
Dicts == {NoneDict} \cup {Dict(f) : f \in UNION {[D -> Vals] : D \in SUBSET Keys}}

\* ------------------------------------------------------------------------
\* State
\* ------------------------------------------------------------------------
VARIABLES
    versions,   \* rows of semantic_version, in the order the store returns them
    objects,    \* rows of semantic_object
    policies,   \* rows of access_policy
    clock,      \* datetime.now()
    arg,        \* arguments of the component operation being invoked
    ret,        \* outcome of that operation
    logical_defs,   \* rows of logical_definition
    mappings,       \* rows of physical_mapping
    entity_maps,    \* rows of metric_entity_map
    metric_dependencies,    \* rows of metric_dependency, in insertion order
    source,         \* the data source behind the query executor
    audits,         \* rows of execution_audit, in insertion order
    executed,       \* the queries the query executor was invoked with
    ids,            \* number of audit ids generated so far
    calls,          \* the query() invocations: position, locals and result
    replays         \* the replay() invocations: position, locals and result

vars == <<versions, objects, policies, clock, arg, ret,
          logical_defs, mappings, entity_maps,
          metric_dependencies, source, audits, executed, ids, calls,
          replays>>

\* the state of the pipeline, untouched by component-level invocations
pipelineVars == <<logical_defs, mappings, entity_maps,
                  metric_dependencies, source, audits, executed, ids, calls,
                  replays>>

PipelineUnused ==
    /\ logical_defs = <<>>
    /\ mappings = <<>>
    /\ entity_maps = <<>>
    /\ metric_dependencies = <<>>
    /\ source = [broken |-> FALSE, rows |-> 0]
    /\ audits = <<>>
    /\ executed = <<>>
    /\ ids = 0
    /\ calls = <<>>
    /\ replays = <<>>

NoRet == [op |-> "none"]

\* ------------------------------------------------------------------------
\* models.py: SemanticVersion
\* ------------------------------------------------------------------------
\* variant: the end of the window is taken as exclusive
is_effective_exclusive_end(v, timestamp, now) ==
    IF ~v.is_active THEN FALSE
    ELSE LET ts == IF timestamp # NoTime THEN timestamp ELSE now IN
         IF ts < v.effective_from THEN FALSE
         ELSE IF v.effective_to # NoTime /\ ts >= v.effective_to THEN FALSE
         ELSE TRUE

is_effective(v, timestamp, now) ==
    IF ~v.is_active THEN FALSE
    ELSE LET ts == IF timestamp # NoTime THEN timestamp ELSE now IN
         IF ts < v.effective_from THEN FALSE
         ELSE IF v.effective_to # NoTime /\ ts > v.effective_to THEN FALSE
         ELSE TRUE

matches_scenario(v, scenario) ==
    IF ~Truthy(v.scenario_condition) THEN TRUE
    ELSE IF ~Truthy(scenario) THEN FALSE
    ELSE \A key \in DOMAIN v.scenario_condition.kv :
            Get(scenario, key) = v.scenario_condition.kv[key]

\* ------------------------------------------------------------------------
\* scenario_matcher.py: ScenarioMatcher
\* ------------------------------------------------------------------------
SCORE_SCENARIO_AND_TIME_MATCH == 2
SCORE_DEFAULT_TIME_EFFECTIVE == 1
SCORE_NO_MATCH == 0

_calculate_score(scenario_condition, is_time_effective, matches) ==
    IF ~is_time_effective THEN SCORE_NO_MATCH
    ELSE IF Truthy(scenario_condition) /\ matches THEN SCORE_SCENARIO_AND_TIME_MATCH
    ELSE IF Truthy(scenario_condition) /\ ~matches THEN SCORE_NO_MATCH
    ELSE IF ~Truthy(scenario_condition) THEN SCORE_DEFAULT_TIME_EFFECTIVE
    ELSE SCORE_NO_MATCH

evaluate_version(v, scenario, timestamp, now) ==
    LET eff == is_effective(v, timestamp, now)
        mat == matches_scenario(v, scenario)
    IN [version_id |-> v.id,
        version_name |-> v.version_name,
        score |-> _calculate_score(v.scenario_condition, eff, mat),
        is_time_effective |-> eff,
        matches_scenario |-> mat]

\* outcome of an operation: a returned value or a raised exception
Return(x) == [kind |-> "return", error |-> "", value |-> x, candidates |-> <<>>]
Raise(e, cands) == [kind |-> "raise", error |-> e, value |-> 0, candidates |-> cands]

\* versions_with_priority.get(version_id, 0)
PriorityOf(versions_with_priority, version_id) ==
    IF version_id \in DOMAIN versions_with_priority
    THEN versions_with_priority[version_id] ELSE 0

\* max(...) over a non-empty set of integers
MaxOf(S) == CHOOSE m \in S : \A x \in S : x <= m

\* s with its i-th element removed
RemoveAt(s, i) == SubSeq(s, 1, i - 1) \o SubSeq(s, i + 1, Len(s))

\* variant: the sort without reverse=True (stable, ascending)
RECURSIVE SortedByPriorityAsc(_, _)
SortedByPriorityAsc(results, vwp) ==
    IF results = <<>> THEN <<>>
    ELSE LET low == CHOOSE m \in {PriorityOf(vwp, results[i].version_id) : i \in 1..Len(results)} :
                      \A i \in 1..Len(results) : m <= PriorityOf(vwp, results[i].version_id)
             first == CHOOSE i \in 1..Len(results) :
                        /\ PriorityOf(vwp, results[i].version_id) = low
                        /\ \A j \in 1..(i - 1) : PriorityOf(vwp, results[j].version_id) # low
         IN <<results[first]>> \o SortedByPriorityAsc(RemoveAt(results, first), vwp)

\* sorted(results, key=priority, reverse=True): stable, descending
RECURSIVE SortedByPriorityDesc(_, _)
SortedByPriorityDesc(results, vwp) ==
    IF results = <<>> THEN <<>>
    ELSE LET top == MaxOf({PriorityOf(vwp, results[i].version_id) : i \in 1..Len(results)})
             first == CHOOSE i \in 1..Len(results) :
                        /\ PriorityOf(vwp, results[i].version_id) = top
                        /\ \A j \in 1..(i - 1) : PriorityOf(vwp, results[j].version_id) # top
         IN <<results[first]>> \o SortedByPriorityDesc(RemoveAt(results, first), vwp)

\* the candidate dicts carried by the AmbiguityError of version selection
VersionCandidates(prioritized, vwp) ==
    [i \in 1..Len(prioritized) |->
        [id |-> prioritized[i].version_id,
         name |-> prioritized[i].version_name,
         priority |-> PriorityOf(vwp, prioritized[i].version_id)]]

\* variant: a tie of the top priority is settled by taking the first candidate
select_best_version_guess_on_tie(match_results, versions_with_priority) ==
    IF match_results = <<>> THEN Raise("ValueError", <<>>)
    ELSE
      LET max_score == MaxOf({match_results[i].score : i \in 1..Len(match_results)})
          best_candidates == SelectSeq(match_results, LAMBDA r : r.score = max_score)
      IN IF Len(best_candidates) = 1 THEN Return(best_candidates[1].version_id)
         ELSE Return(SortedByPriorityDesc(best_candidates, versions_with_priority)[1].version_id)

select_best_version(match_results, versions_with_priority) ==
    IF match_results = <<>> THEN Raise("ValueError", <<>>)
    ELSE
      LET max_score == MaxOf({match_results[i].score : i \in 1..Len(match_results)})
          best_candidates == SelectSeq(match_results, LAMBDA r : r.score = max_score)
      IN IF Len(best_candidates) = 1 THEN Return(best_candidates[1].version_id)
         ELSE
           LET prioritized == SortedByPriorityDesc(best_candidates, versions_with_priority)
               top_priority == PriorityOf(versions_with_priority, prioritized[1].version_id)
               top_priority_count ==
                   Cardinality({i \in 1..Len(prioritized) :
                       PriorityOf(versions_with_priority, prioritized[i].version_id) = top_priority})
           IN IF top_priority_count = 1 THEN Return(prioritized[1].version_id)
              ELSE Raise("AmbiguityError",
                         VersionCandidates(prioritized, versions_with_priority))

\* ------------------------------------------------------------------------
\* sqlite_stores.py: SQLiteMetadataStore.get_versions_for_object
\* ------------------------------------------------------------------------
\* stable sort of rows by effective_from, descending (ORDER BY effective_from DESC;
\* rows with equal effective_from keep the table's order)
RECURSIVE OrderByEffectiveFromDesc(_)
OrderByEffectiveFromDesc(rows) ==
    IF rows = <<>> THEN <<>>
    ELSE LET top == MaxOf({rows[i].effective_from : i \in 1..Len(rows)})
             first == CHOOSE i \in 1..Len(rows) :
                        /\ rows[i].effective_from = top
                        /\ \A j \in 1..(i - 1) : rows[j].effective_from # top
         IN <<rows[first]>> \o OrderByEffectiveFromDesc(RemoveAt(rows, first))

get_versions_for_object(table, semantic_object_id) ==
    OrderByEffectiveFromDesc(
        SelectSeq(table, LAMBDA v : v.semantic_object_id = semantic_object_id))

\* ------------------------------------------------------------------------
\* semantic_resolver.py: SemanticResolver.resolve_version
\* ------------------------------------------------------------------------
\* {v.id: v.priority for v in versions}
version_priorities(vs) ==
    [id \in {vs[i].id : i \in 1..Len(vs)} |->
        LET last == CHOOSE i \in 1..Len(vs) :
                      vs[i].id = id /\ \A j \in (i + 1)..Len(vs) : vs[j].id # id
        IN vs[last].priority]

resolve_version(table, semantic_object_id, scenario, timestamp, now) ==
    LET vs == get_versions_for_object(table, semantic_object_id) IN
    IF vs = <<>> THEN Raise("VersionNotFoundError", <<>>)
    ELSE
      LET vwp == version_priorities(vs)
          match_results ==
              [i \in 1..Len(vs) |-> evaluate_version(vs[i], scenario, timestamp, now)]
      IN select_best_version(match_results, vwp)

\* ------------------------------------------------------------------------
\* Component-level invocations of the version operations
\* ------------------------------------------------------------------------
Times == 0..MaxTime
OptTimes == {NoTime} \cup Times

\* one semantic_version row with every field drawn from its domain
VersionRows ==
    [id : {1}, semantic_object_id : {1}, version_name : {<<"version", 1>>},
     effective_from : Times, effective_to : OptTimes,
     scenario_condition : Dicts, is_active : BOOLEAN, priority : {0}]

\* the timestamp the operation works with: the argument, or now() when absent
EffectiveTs(a, now) == IF a.timestamp # NoTime THEN a.timestamp ELSE now

InitVersion ==
    /\ versions \in {<<v>> : v \in VersionRows}
    /\ objects = <<>>
    /\ policies = <<>>
    /\ arg \in [scenario : Dicts, timestamp : OptTimes]
    /\ clock \in (IF arg.timestamp = NoTime THEN Times ELSE {0})
    /\ ret = NoRet
    /\ PipelineUnused

IsEffective(i) ==
    /\ ret' = [op |-> "is_effective", i |-> i,
               out |-> is_effective(versions[i], arg.timestamp, clock)]
    /\ UNCHANGED <<versions, objects, policies, clock, arg>>
    /\ UNCHANGED pipelineVars

MatchesScenario(i) ==
    /\ ret' = [op |-> "matches_scenario", i |-> i,
               out |-> matches_scenario(versions[i], arg.scenario)]
    /\ UNCHANGED <<versions, objects, policies, clock, arg>>
    /\ UNCHANGED pipelineVars

EvaluateVersion(i) ==
    /\ ret' = [op |-> "evaluate_version", i |-> i,
               out |-> evaluate_version(versions[i], arg.scenario, arg.timestamp, clock)]
    /\ UNCHANGED <<versions, objects, policies, clock, arg>>
    /\ UNCHANGED pipelineVars

NextVersion ==
    \E i \in 1..Len(versions) :
        \/ IsEffective(i)
        \/ MatchesScenario(i)
        \/ EvaluateVersion(i)

SpecVersion == InitVersion /\ [][NextVersion]_vars

\* ---- the statements about one version ----
\* v is time-effective at T: active and inside the inclusive window
EffectiveAt(v, T) ==
    /\ v.is_active
    /\ v.effective_from <= T
    /\ (v.effective_to = NoTime \/ T <= v.effective_to)

\* the condition has no key (absent or empty)
NoCondition(c) == c.none \/ DOMAIN c.kv = {}

\* every key of the condition is a key of the scenario, with the same value
FullySatisfied(c, s) ==
    /\ ~s.none
    /\ \A k \in DOMAIN c.kv : k \in DOMAIN s.kv /\ s.kv[k] = c.kv[k]

\* C8: is_effective(T) is true iff the version is active and
\* effective_from <= T and (effective_to is absent or T <= effective_to);
\* both window bounds are inclusive.
C8_IsEffectiveIffActiveInWindow ==
    ret.op = "is_effective" =>
        (ret.out <=> EffectiveAt(versions[ret.i], EffectiveTs(arg, clock)))

\* C8 witness: a version found effective exactly at the end of its window
C8_Witness ==
    /\ ret.op = "is_effective"
    /\ ret.out
    /\ arg.timestamp # NoTime
    /\ versions[ret.i].effective_to = arg.timestamp
    /\ versions[ret.i].effective_from < arg.timestamp

\* C9: matches_scenario(s) is true iff the condition is empty, or s is not
\* null and for every (k, val) of the condition the scenario contains key k
\* with value val; a key of the condition missing from s always prevents a match.
C9_MatchesIffEveryKeyPresentAndEqual ==
    ret.op = "matches_scenario" =>
        (ret.out <=> (\/ NoCondition(versions[ret.i].scenario_condition)
                      \/ FullySatisfied(versions[ret.i].scenario_condition, arg.scenario)))

\* C7: evaluate_version scores 0 if the version is not time-effective, 2 if it
\* is time-effective and has a non-empty condition every key/value of which
\* equals the supplied scenario, 1 if it is time-effective and has no
\* condition, and 0 if it is time-effective but its condition is not fully
\* satisfied.
C7_ScoreTable ==
    ret.op = "evaluate_version" =>
        LET v == versions[ret.i]
            c == v.scenario_condition
            eff == EffectiveAt(v, EffectiveTs(arg, clock))
        IN ret.out.score =
             (IF ~eff THEN 0
              ELSE IF NoCondition(c) THEN 1
              ELSE IF FullySatisfied(c, arg.scenario) THEN 2
              ELSE 0)

\* ------------------------------------------------------------------------
\* Component-level invocations of version selection and resolution
\* ------------------------------------------------------------------------
ObjectIds == {1, 2}

\* semantic_version tables of up to MaxVersions rows; row i has id i
SelectionRow(i) ==
    [id : {i}, semantic_object_id : ObjectIds, version_name : {<<"version", i>>},
     effective_from : {0}, effective_to : {NoTime},
     scenario_condition : {NoneDict, Dict([k \in {"k1"} |-> "a"])},
     is_active : BOOLEAN, priority : 0..MaxPriority]

RECURSIVE VersionTables(_)
VersionTables(n) ==
    IF n = 0 THEN {<<>>}
    ELSE {Append(t, v) : t \in VersionTables(n - 1), v \in SelectionRow(n)}

SelectionScenarios ==
    {NoneDict, Dict([k \in {"k1"} |-> "a"]), Dict([k \in {"k1"} |-> "b"])}

InitResolve ==
    /\ versions \in UNION {VersionTables(n) : n \in 0..MaxVersions}
    /\ objects = <<>>
    /\ policies = <<>>
    /\ arg \in [scenario : SelectionScenarios, timestamp : {1},
                semantic_object_id : {1}]
    /\ clock = 0
    /\ ret = NoRet
    /\ PipelineUnused

\* the match results and priorities resolve_version builds for an object
MatchResultsFor(table, a, now) ==
    LET vs == get_versions_for_object(table, a.semantic_object_id) IN
    [i \in 1..Len(vs) |-> evaluate_version(vs[i], a.scenario, a.timestamp, now)]

SelectBestVersion ==
    /\ ret' = [op |-> "select_best_version",
               results |-> MatchResultsFor(versions, arg, clock),
               out |-> select_best_version(
                          MatchResultsFor(versions, arg, clock),
                          version_priorities(
                              get_versions_for_object(versions, arg.semantic_object_id)))]
    /\ UNCHANGED <<versions, objects, policies, clock, arg>>
    /\ UNCHANGED pipelineVars

ResolveVersion ==
    /\ ret' = [op |-> "resolve_version",
               results |-> MatchResultsFor(versions, arg, clock),
               out |-> resolve_version(versions, arg.semantic_object_id,
                                       arg.scenario, arg.timestamp, clock)]
    /\ UNCHANGED <<versions, objects, policies, clock, arg>>
    /\ UNCHANGED pipelineVars

NextResolve ==
    \/ SelectBestVersion
    \/ ResolveVersion

SpecResolve == InitResolve /\ [][NextResolve]_vars

\* ---- the statements about selection ----
\* the row of the table with the given id
RowById(table, id) == table[CHOOSE i \in 1..Len(table) : table[i].id = id]

\* ids of the members of the highest-score group
TopGroup(results) ==
    {results[i].version_id : i \in
        {j \in 1..Len(results) : \A k \in 1..Len(results) : results[k].score <= results[j].score}}

\* ids of the members of the highest-score group that hold its top priority
TopTied(table, results) ==
    {id \in TopGroup(results) :
        \A other \in TopGroup(results) :
            RowById(table, other).priority <= RowById(table, id).priority}

\* C4: selection returns the single member of the highest-score group when it
\* has one member, otherwise the member with the strictly highest priority;
\* it raises AmbiguityError iff two or more members of the highest-score group
\* share that group's top priority, and never returns a version in that case.
C4_SelectionRule ==
    (ret.op = "select_best_version" /\ ret.results # <<>>) =>
        LET tied == TopTied(versions, ret.results) IN
        /\ (Cardinality(tied) = 1 =>
                ret.out.kind = "return" /\ ret.out.value \in tied)
        /\ ((ret.out.kind = "raise" /\ ret.out.error = "AmbiguityError")
                <=> Cardinality(tied) >= 2)
        /\ (Cardinality(tied) >= 2 => ret.out.kind # "return")

\* C4 witness: three versions in the top group, one of them holds the top priority alone
C4_Witness ==
    /\ ret.op = "select_best_version"
    /\ Cardinality(TopGroup(ret.results)) >= 3
    /\ Cardinality(TopTied(versions, ret.results)) = 1
    /\ ret.out.kind = "return"

\* C5: resolve_version returns a version only if it is time-effective at the
\* query timestamp and its scenario condition, if any, is fully satisfied;
\* when every version of the object scores 0, resolution fails with a
\* not-found error instead of returning one of them.
C5_ReturnsOnlyEffectiveMatching ==
    ret.op = "resolve_version" =>
        /\ (ret.out.kind = "return" =>
              LET v == RowById(versions, ret.out.value) IN
              /\ EffectiveAt(v, EffectiveTs(arg, clock))
              /\ (NoCondition(v.scenario_condition)
                    \/ FullySatisfied(v.scenario_condition, arg.scenario)))
        /\ ((ret.results # <<>> /\ \A i \in 1..Len(ret.results) : ret.results[i].score = 0)
              => ret.out.kind = "raise" /\ ret.out.error = "VersionNotFoundError")

\* permutations of a sequence
Perms(seq) ==
    {[i \in 1..Len(seq) |-> seq[f[i]]] :
        f \in {g \in [1..Len(seq) -> 1..Len(seq)] :
                  \A a, b \in 1..Len(seq) : a # b => g[a] # g[b]}}

\* the observable outcome: the selected id, or the failure and whom it names
OutcomeOf(o) ==
    [kind |-> o.kind, error |-> o.error, value |-> o.value,
     candidates |-> {o.candidates[i] : i \in 1..Len(o.candidates)}]

\* C6: for a fixed object, scenario, timestamp and set of versions,
\* resolve_version yields the same outcome whatever the order in which the
\* metadata store returns the versions.
C6_ResolutionIgnoresStoreOrder ==
    ret.op = "resolve_version" =>
        \A t \in Perms(versions) :
            OutcomeOf(resolve_version(t, arg.semantic_object_id, arg.scenario,
                                      arg.timestamp, clock))
              = OutcomeOf(ret.out)

\* C6 witness: a priority decides among several top-score versions, and the
\* winner is not the first of them in store order
C6_Witness ==
    /\ ret.op = "resolve_version"
    /\ ret.out.kind = "return"
    /\ Cardinality(TopGroup(ret.results)) >= 2
    /\ \E i \in 1..Len(ret.results) :
          /\ ret.results[i].version_id \in TopGroup(ret.results)
          /\ ret.results[i].version_id # ret.out.value
          /\ \A j \in 1..Len(ret.results) :
                ret.results[j].version_id = ret.out.value => i < j

\* ------------------------------------------------------------------------
\* sqlite_stores.py: SQLitePolicyStore.get_applicable_policies
\* ------------------------------------------------------------------------
RECURSIVE OrderByPriorityDesc(_)
OrderByPriorityDesc(rows) ==
    IF rows = <<>> THEN <<>>
    ELSE LET top == MaxOf({rows[i].priority : i \in 1..Len(rows)})
             first == CHOOSE i \in 1..Len(rows) :
                        /\ rows[i].priority = top
                        /\ \A j \in 1..(i - 1) : rows[j].priority # top
         IN <<rows[first]>> \o OrderByPriorityDesc(RemoveAt(rows, first))

get_applicable_policies(table, semantic_object_id, role, action) ==
    OrderByPriorityDesc(
        SelectSeq(table, LAMBDA p :
            /\ p.semantic_object_id = semantic_object_id
            /\ (p.role = role \/ p.role = "*")
            /\ (p.action = action \/ p.action = "*")))

\* ------------------------------------------------------------------------
\* policy_engine.py: PolicyEngine
\* ------------------------------------------------------------------------
_matches_condition(policy, context) ==
    IF ~Truthy(policy.condition) THEN TRUE
    ELSE IF ~Truthy(context) THEN FALSE
    ELSE \A key \in DOMAIN policy.condition.kv :
            /\ key \in DOMAIN context.kv
            /\ context.kv[key] = policy.condition.kv[key]

Decision(allow, text, n, matched) ==
    [allow |-> allow, reason |-> [text |-> text, n |-> n, names |-> {}], policies |-> matched]

\* the loop of _evaluate_policies from position i on, with the policies matched so far
RECURSIVE EvaluateFrom(_, _, _, _)
EvaluateFrom(pols, context, i, matched) ==
    IF i > Len(pols)
    THEN IF matched # <<>> /\ \A j \in 1..Len(matched) : matched[j].effect = "allow"
         THEN Decision(TRUE, "Allowed by policy(ies)", Len(matched), matched)
         ELSE Decision(FALSE, "No matching allow policy found - default deny", 0, matched)
    ELSE IF _matches_condition(pols[i], context)
         THEN IF pols[i].effect = "deny"
              THEN Decision(FALSE, "Denied by policy", pols[i].id, Append(matched, pols[i]))
              ELSE EvaluateFrom(pols, context, i + 1, Append(matched, pols[i]))
         ELSE EvaluateFrom(pols, context, i + 1, matched)

\* variant: the first matching policy, in priority order, decides
_evaluate_policies_first_match_wins(pols, context) ==
    LET matching == SelectSeq(pols, LAMBDA p : _matches_condition(p, context)) IN
    IF matching = <<>>
    THEN Decision(FALSE, "No matching allow policy found - default deny", 0, <<>>)
    ELSE IF matching[1].effect = "deny"
         THEN Decision(FALSE, "Denied by policy", matching[1].id, <<matching[1]>>)
         ELSE Decision(TRUE, "Allowed by policy(ies)", 1, <<matching[1]>>)

_evaluate_policies(pols, context) == EvaluateFrom(pols, context, 1, <<>>)

\* the decision, and whether it is returned or raised as PolicyDeniedError(reason)
check_access(table, semantic_object_id, role, action, context) ==
    LET pols == get_applicable_policies(table, semantic_object_id, role, action)
        decision == IF pols = <<>>
                    THEN Decision(FALSE, "No access policies defined - default deny", 0, <<>>)
                    ELSE _evaluate_policies(pols, context)
    IN IF ~decision.allow
       THEN [kind |-> "raise", error |-> "PolicyDeniedError", decision |-> decision]
       ELSE [kind |-> "return", error |-> "", decision |-> decision]

\* ------------------------------------------------------------------------
\* Component-level invocations of the policy engine
\* ------------------------------------------------------------------------
PolicyRow(i) ==
    [id : {i}, semantic_object_id : {1}, role : {"operator", "*"},
     action : {"query", "*", "export"},
     condition : {NoneDict, Dict([k \in {"k1"} |-> "a"])},
     effect : {"allow", "deny"}, priority : 0..MaxPriority]

RECURSIVE PolicyTables(_)
PolicyTables(n) ==
    IF n = 0 THEN {<<>>}
    ELSE {Append(t, p) : t \in PolicyTables(n - 1), p \in PolicyRow(n)}

PolicyContexts ==
    {NoneDict, Dict([k \in {"k1"} |-> "a"]), Dict([k \in {"k2"} |-> "a"])}

InitPolicy ==
    /\ policies \in UNION {PolicyTables(n) : n \in 0..MaxPolicies}
    /\ versions = <<>>
    /\ objects = <<>>
    /\ arg \in [semantic_object_id : ObjectIds, role : {"operator", "anonymous"},
                action : {"query"}, context : PolicyContexts]
    /\ clock = 0
    /\ ret = NoRet
    /\ PipelineUnused

CheckAccess ==
    /\ ret' = [op |-> "check_access",
               out |-> check_access(policies, arg.semantic_object_id, arg.role,
                                    arg.action, arg.context)]
    /\ UNCHANGED <<versions, objects, policies, clock, arg>>
    /\ UNCHANGED pipelineVars

NextPolicy == CheckAccess

SpecPolicy == InitPolicy /\ [][NextPolicy]_vars

\* ---- the statements about the policy engine ----
\* the rows the store retrieves for (object, role, action)
Retrieved(table, a) ==
    {i \in 1..Len(table) :
        /\ table[i].semantic_object_id = a.semantic_object_id
        /\ table[i].role \in {a.role, "*"}
        /\ table[i].action \in {a.action, "*"}}

\* the policy has no condition, or each of its key/values is in the context
ConditionHolds(p, context) ==
    \/ NoCondition(p.condition)
    \/ /\ ~context.none
       /\ \A k \in DOMAIN p.condition.kv :
             k \in DOMAIN context.kv /\ context.kv[k] = p.condition.kv[k]

MatchingRetrieved(table, a) ==
    {i \in Retrieved(table, a) : ConditionHolds(table[i], a.context)}

UpperToLower == [c \in {"F", "P", "O"} |-> CASE c = "F" -> "f" [] c = "P" -> "p" [] c = "O" -> "o"]
LatinLetters == {"f", "p", "o"} \cup DOMAIN UpperToLower
\* stand-ins for characters of the CJK range
CJKChars == {"liang", "lv", "tian"}

\* str.lower()
Lower(str) ==
    [i \in 1..Len(str) |-> IF str[i] \in DOMAIN UpperToLower THEN UpperToLower[str[i]] ELSE str[i]]

\* `sub in str`
IsSubstring(sub, str) ==
    \E i \in 0..(Len(str) - Len(sub)) : SubSeq(str, i + 1, i + Len(sub)) = sub

\* ------------------------------------------------------------------------
\* semantic_resolver.py: SemanticResolver (object resolution)
\* ------------------------------------------------------------------------
\* the known phrase table: phrase -> canonical tag
known_phrases == << [phrase |-> <<"liang", "lv">>, tag |-> <<"F", "P">>] >>

\* sequence without later duplicates, order preserved
RECURSIVE Unique(_)
Unique(seq) ==
    IF seq = <<>> THEN <<>>
    ELSE LET front == Unique(SubSeq(seq, 1, Len(seq) - 1))
             x == seq[Len(seq)]
         IN IF \E i \in 1..Len(front) : front[i] = x THEN front ELSE Append(front, x)

\* concatenation of a sequence of sequences
RECURSIVE Flatten(_)
Flatten(ss) == IF ss = <<>> THEN <<>> ELSE Head(ss) \o Flatten(Tail(ss))

\* the question is the sequence of its whitespace-separated words
_extract_keywords(question) ==
    LET phrase_hits ==
            Flatten([p \in 1..Len(known_phrases) |->
                IF \E w \in 1..Len(question) : IsSubstring(known_phrases[p].phrase, question[w])
                THEN <<known_phrases[p].phrase, known_phrases[p].tag>> ELSE <<>>])
        english_words ==
            Flatten([w \in 1..Len(question) |->
                IF Len(question[w]) >= 2 /\ \A i \in 1..Len(question[w]) : question[w][i] \in LatinLetters
                THEN <<Lower(question[w])>> ELSE <<>>])
        keywords == phrase_hits \o english_words
        chinese_words ==
            Flatten([w \in 1..Len(question) |->
                IF Len(question[w]) >= 3 /\ \A i \in 1..Len(question[w]) : question[w][i] \in CJKChars
                THEN <<question[w]>> ELSE <<>>])
    IN Unique(IF keywords = <<>> THEN chinese_words ELSE keywords)

\* sum of the integers of a sequence
RECURSIVE Sum(_)
Sum(seq) == IF seq = <<>> THEN 0 ELSE Head(seq) + Sum(Tail(seq))

_calculate_relevance(obj, keywords) ==
    Sum([k \in 1..Len(keywords) |->
        LET kw == Lower(keywords[k]) IN
          (IF kw = Lower(obj.name) THEN 10 ELSE 0)
        + (IF \E a \in 1..Len(obj.aliases) : kw = Lower(obj.aliases[a]) THEN 8 ELSE 0)
        + (IF IsSubstring(kw, Lower(obj.name)) THEN 3 ELSE 0)
        + (IF IsSubstring(kw, Lower(obj.description)) THEN 1 ELSE 0)
        + (IF \E a \in 1..Len(obj.aliases) : IsSubstring(kw, Lower(obj.aliases[a])) THEN 2 ELSE 0)])

\* SQLiteMetadataStore.list_active_semantic_objects
list_active_semantic_objects(table) == SelectSeq(table, LAMBDA o : o.status = "active")

\* candidates.sort(key=score, reverse=True): stable, descending
RECURSIVE SortedByScoreDesc(_)
SortedByScoreDesc(scored) ==
    IF scored = <<>> THEN <<>>
    ELSE LET top == MaxOf({scored[i].score : i \in 1..Len(scored)})
             first == CHOOSE i \in 1..Len(scored) :
                        /\ scored[i].score = top
                        /\ \A j \in 1..(i - 1) : scored[j].score # top
         IN <<scored[first]>> \o SortedByScoreDesc(RemoveAt(scored, first))

_search_semantic_objects(table, keywords) ==
    LET active == list_active_semantic_objects(table)
        scored == [i \in 1..Len(active) |->
                      [score |-> _calculate_relevance(active[i], keywords), obj |-> active[i]]]
        sorted == SortedByScoreDesc(SelectSeq(scored, LAMBDA c : c.score > 0))
    IN [i \in 1..Len(sorted) |-> sorted[i].obj]

\* the candidate dicts carried by the AmbiguityError
ObjectCandidates(candidates) ==
    [i \in 1..Len(candidates) |->
        [id |-> candidates[i].id, name |-> candidates[i].name, domain |-> candidates[i].domain]]

\* variant: only a tie of the best score is ambiguous, a unique best score wins
resolve_semantic_object_tie_only(table, question) ==
    LET keywords == _extract_keywords(question)
        candidates == _search_semantic_objects(table, keywords)
    IN IF candidates = <<>> THEN Raise("ValueError: No semantic object found", <<>>)
       ELSE IF /\ Len(candidates) > 1
               /\ _calculate_relevance(candidates[1], keywords)
                    = _calculate_relevance(candidates[2], keywords)
            THEN Raise("AmbiguityError", ObjectCandidates(candidates))
            ELSE Return(candidates[1].id)

resolve_semantic_object(table, question) ==
    LET keywords == _extract_keywords(question)
        candidates == _search_semantic_objects(table, keywords)
    IN IF candidates = <<>> THEN Raise("ValueError: No semantic object found", <<>>)
       ELSE IF Len(candidates) > 1
            THEN Raise("AmbiguityError", ObjectCandidates(candidates))
            ELSE Return(candidates[1].id)

\* ------------------------------------------------------------------------
\* Component-level invocations of object resolution
\* ------------------------------------------------------------------------
ObjectRow(i) ==
    [id : {i},
     name : {<<"F", "P">>, <<"p", "o">>},
     description : {<<>>, <<"p", "o", "f", "p">>},
     aliases : {<<>>, << <<"liang", "lv">> >>, << <<"f", "p", "o">> >>},
     domain : {"production"},
     status : {"active", "deprecated"}]

RECURSIVE ObjectTables(_)
ObjectTables(n) ==
    IF n = 0 THEN {<<>>}
    ELSE {Append(t, o) : t \in ObjectTables(n - 1), o \in ObjectRow(n)}

QuestionWords ==
    {<<"F", "P">>, <<"p", "o">>, <<"o">>, <<"liang", "lv">>, <<"tian", "tian", "tian">>}

Questions == {<<>>} \cup {<<w>> : w \in QuestionWords}
                \cup {<<w1, w2>> : w1 \in QuestionWords, w2 \in QuestionWords}

InitObject ==
    /\ objects \in UNION {ObjectTables(n) : n \in 0..MaxObjects}
    /\ versions = <<>>
    /\ policies = <<>>
    /\ arg \in [question : Questions]
    /\ clock = 0
    /\ ret = NoRet
    /\ PipelineUnused

ResolveSemanticObject ==
    /\ ret' = [op |-> "resolve_semantic_object",
               out |-> resolve_semantic_object(objects, arg.question)]
    /\ UNCHANGED <<versions, objects, policies, clock, arg>>
    /\ UNCHANGED pipelineVars

NextObject == ResolveSemanticObject

SpecObject == InitObject /\ [][NextObject]_vars

\* ---- the statements about object resolution ----
\* ids of the active objects whose relevance for the question's keywords is > 0
ActiveMatches(table, question) ==
    {table[i].id : i \in
        {j \in 1..Len(table) :
            /\ table[j].status = "active"
            /\ _calculate_relevance(table[j], _extract_keywords(question)) > 0}}

\* C10: resolve_semantic_object returns o iff o is the only active object
\* whose relevance score is > 0; with two or more such objects (even with
\* different scores) it raises AmbiguityError carrying all of them; with none
\* it fails with a not-found error; an inactive object is never returned.
C10_UniqueActiveMatchOrFail ==
    ret.op = "resolve_semantic_object" =>
        LET m == ActiveMatches(objects, arg.question) IN
        /\ \A o \in {objects[i].id : i \in 1..Len(objects)} :
              (ret.out.kind = "return" /\ ret.out.value = o) <=> m = {o}
        /\ Cardinality(m) >= 2 =>
              /\ ret.out.kind = "raise" /\ ret.out.error = "AmbiguityError"
              /\ {ret.out.candidates[i].id : i \in 1..Len(ret.out.candidates)} = m
        /\ m = {} =>
              ret.out.kind = "raise" /\ ret.out.error = "ValueError: No semantic object found"
        /\ ret.out.kind = "return" =>
              RowById(objects, ret.out.value).status = "active"

\* C10 witness: two active objects match with different scores and the call is ambiguous
C10_Witness ==
    /\ ret.op = "resolve_semantic_object"
    /\ ret.out.kind = "raise" /\ ret.out.error = "AmbiguityError"
    /\ \E i, j \in 1..Len(objects) :
          /\ objects[i].status = "active" /\ objects[j].status = "active"
          /\ _calculate_relevance(objects[i], _extract_keywords(arg.question)) >= 10
          /\ _calculate_relevance(objects[j], _extract_keywords(arg.question)) = 1

\* ------------------------------------------------------------------------
\* semantic_resolver.py: SemanticResolver.resolve_logic
\* ------------------------------------------------------------------------
\* SQLiteMetadataStore.get_logical_definition: the first row of the version, if any
get_logical_definition(table, semantic_version_id) ==
    SelectSeq(table, LAMBDA d : d.semantic_version_id = semantic_version_id)

resolve_logic(table, semantic_version_id) ==
    LET found == get_logical_definition(table, semantic_version_id) IN
    IF found = <<>> THEN Raise("ValueError: No logical definition found", <<>>)
    ELSE Return(found[1].id)

\* ------------------------------------------------------------------------
\* grain_validator.py: GrainValidator.validate
\* ------------------------------------------------------------------------
\* parameters.get("dimensions") or parameters.get("group_by"), as a set of names
_get_requested_dimensions(parameters) ==
    IF "dimensions" \in DOMAIN parameters.kv /\ parameters.kv["dimensions"] # {}
    THEN parameters.kv["dimensions"]
    ELSE IF "group_by" \in DOMAIN parameters.kv THEN parameters.kv["group_by"] ELSE {}

\* the status of the validation: "WARN", "FAIL" or "PASS"
grain_validate(maps_table, metric_id, parameters, metric_grain) ==
    LET requested_dimensions == _get_requested_dimensions(parameters)
        requested_grain == IF "grain" \in DOMAIN parameters.kv THEN parameters.kv["grain"] ELSE {}
        maps == SelectSeq(maps_table, LAMBDA m : m.metric_id = metric_id)
    IN IF maps = <<>> THEN "WARN"
       ELSE LET allowed == maps[1].allowed_dimensions
                forbidden == maps[1].forbidden_dimensions
            IN IF /\ requested_dimensions # {}
                  /\ allowed # {}
                  /\ ~(requested_dimensions \subseteq allowed)
               THEN "FAIL"
               ELSE IF requested_dimensions # {} /\ requested_dimensions \cap forbidden # {}
               THEN "FAIL"
               ELSE IF requested_grain # {} /\ ~(requested_grain \subseteq metric_grain)
               THEN "FAIL"
               ELSE "PASS"

\* ------------------------------------------------------------------------
\* execution_engine.py: ExecutionEngine
\* ------------------------------------------------------------------------
\* variant: the rows come back in table order
get_physical_mappings_unordered(table, logical_definition_id, engine_type) ==
    SelectSeq(table, LAMBDA m :
        /\ m.logical_definition_id = logical_definition_id
        /\ (engine_type \notin {None, ""} => m.engine_type = engine_type))

\* SQLiteMetadataStore.get_physical_mappings: `if engine_type:` adds the engine
\* filter for a non-empty name; ORDER BY priority DESC
get_physical_mappings(table, logical_definition_id, engine_type) ==
    OrderByPriorityDesc(
        SelectSeq(table, LAMBDA m :
            /\ m.logical_definition_id = logical_definition_id
            /\ (engine_type \notin {None, ""} => m.engine_type = engine_type)))

resolve_physical_mapping(table, logical_definition_id, engine_type) ==
    LET found == get_physical_mappings(table, logical_definition_id, engine_type) IN
    IF found = <<>> THEN Raise("MappingNotFoundError", <<>>)
    ELSE Return(found[1].id)

\* A query text: the template it was rendered from, the value substituted for
\* each Jinja placeholder, and the named bind parameters (":line") the text
\* still holds, which the executor binds when it runs the query.
\* no SQL (final_sql IS NULL)
NoSql == [template |-> None, jinja |-> [k \in {} |-> None], bind_params |-> {}]

\* variant: the error names every key of the parameter schema
render_sql_names_schema(mapping, parameters) ==
    LET missing_params == {k \in mapping.params_schema : k \notin DOMAIN parameters.kv} IN
    IF mapping.params_schema # {} /\ missing_params # {}
    THEN [kind |-> "raise", error |-> "ValueError: Missing required parameters",
          missing |-> mapping.params_schema, sql |-> NoSql]
    ELSE [kind |-> "return", error |-> "", missing |-> {},
          sql |-> [template |-> mapping.sql_template.text,
                   jinja |-> [k \in mapping.sql_template.placeholders |-> Get(parameters, k)],
                   bind_params |-> mapping.sql_template.bind_params]]

\* the rendered query: Template(sql_template).render(**parameters) substitutes
\* the Jinja placeholders and leaves the named bind parameters in the text
render_sql(mapping, parameters) ==
    LET missing_params == {k \in mapping.params_schema : k \notin DOMAIN parameters.kv} IN
    IF mapping.params_schema # {} /\ missing_params # {}
    THEN [kind |-> "raise", error |-> "ValueError: Missing required parameters",
          missing |-> missing_params, sql |-> NoSql]
    ELSE [kind |-> "return", error |-> "", missing |-> {},
          sql |-> [template |-> mapping.sql_template.text,
                   jinja |-> [k \in mapping.sql_template.placeholders |-> Get(parameters, k)],
                   bind_params |-> mapping.sql_template.bind_params]]

\* SQLiteQueryExecutor.execute: cursor.execute(sql, parameters or {}) fails
\* when the data source fails or a named bind parameter of the text has no
\* value; otherwise the rows the data source holds
query_executor_execute(sql, connection_ref, parameters, db) ==
    LET supplied == IF Truthy(parameters) THEN DOMAIN parameters.kv ELSE {} IN
    IF db.broken THEN [kind |-> "raise", rows |-> 0, error |-> "OperationalError"]
    ELSE IF ~(sql.bind_params \subseteq supplied)
    THEN [kind |-> "raise", rows |-> 0,
          error |-> "ProgrammingError: You did not supply a value for binding parameter"]
    ELSE [kind |-> "return", rows |-> db.rows, error |-> None]

\* ExecutionEngine.execute: one downstream call, failure captured in the result
execute(sql, connection_ref, parameters, db) ==
    LET r == query_executor_execute(sql, connection_ref, parameters, db) IN
    IF r.kind = "return"
    THEN [success |-> TRUE, row_count |-> r.rows, error |-> None]
    ELSE [success |-> FALSE, row_count |-> 0, error |-> r.error]

\* ------------------------------------------------------------------------
\* The governance metadata the pipeline runs against
\* ------------------------------------------------------------------------
K1A == Dict([k \in {"k1"} |-> "a"])

SemanticObjectRows == <<
    [id |-> 1, name |-> <<"F", "P">>, description |-> <<>>,
     aliases |-> << <<"liang", "lv">> >>, domain |-> "production", status |-> "active"],
    [id |-> 2, name |-> <<"p", "o">>, description |-> <<>>,
     aliases |-> <<>>, domain |-> "production", status |-> "active"],
    [id |-> 3, name |-> <<"o", "f">>, description |-> <<>>,
     aliases |-> <<>>, domain |-> "production", status |-> "active"],
    [id |-> 4, name |-> <<"o", "o">>, description |-> <<>>,
     aliases |-> <<>>, domain |-> "production", status |-> "active"],
    [id |-> 5, name |-> <<"p", "p">>, description |-> <<>>,
     aliases |-> <<>>, domain |-> "production", status |-> "deprecated"],
    [id |-> 6, name |-> <<"f", "o">>, description |-> <<>>,
     aliases |-> <<>>, domain |-> "finance", status |-> "active"] >>

VersionRow(id, obj, cond) ==
    [id |-> id, semantic_object_id |-> obj, version_name |-> <<"version", id>>,
     effective_from |-> 0, effective_to |-> NoTime, scenario_condition |-> cond,
     is_active |-> TRUE, priority |-> 0]

\* object 1: a default and a scenario version; object 2: two tied defaults;
\* object 3: no version; object 4: a version without logical definition;
\* object 6: a version whose logic has no mapping for the default engine
SemanticVersionRows == <<
    VersionRow(1, 1, NoneDict), VersionRow(2, 1, K1A),
    VersionRow(3, 2, NoneDict), VersionRow(4, 2, NoneDict),
    VersionRow(5, 4, NoneDict), VersionRow(6, 6, NoneDict) >>

LogicalDefinitionRows == <<
    [id |-> 1, semantic_version_id |-> 1, expression |-> "good_qty / total_qty", grain |-> {"line", "day"}],
    [id |-> 2, semantic_version_id |-> 2, expression |-> "(good_qty + rework_qty) / total_qty", grain |-> {"line", "day"}],
    [id |-> 3, semantic_version_id |-> 3, expression |-> "output", grain |-> {"line"}],
    [id |-> 4, semantic_version_id |-> 4, expression |-> "output", grain |-> {"line"}],
    [id |-> 5, semantic_version_id |-> 6, expression |-> "revenue - cost", grain |-> {"line"}] >>

\* logical definition 1 has two sqlite mappings whose texts bind :line and
\* :start_date at execution; logical definition 2 a postgres mapping and a
\* sqlite one whose text has a Jinja placeholder only and no required
\* parameter; logical definition 5 only a postgres mapping
PhysicalMappingRows == <<
    [id |-> 1, logical_definition_id |-> 1, engine_type |-> "sqlite", connection_ref |-> "default",
     sql_template |-> [text |-> "fpy_low", placeholders |-> {},
                       bind_params |-> {"line", "start_date"}],
     params_schema |-> {"line", "start_date"}, priority |-> 0],
    [id |-> 2, logical_definition_id |-> 1, engine_type |-> "sqlite", connection_ref |-> "default",
     sql_template |-> [text |-> "fpy", placeholders |-> {},
                       bind_params |-> {"line", "start_date"}],
     params_schema |-> {"line", "start_date"}, priority |-> 1],
    [id |-> 3, logical_definition_id |-> 2, engine_type |-> "postgres", connection_ref |-> "warehouse",
     sql_template |-> [text |-> "fpy_rework_pg", placeholders |-> {"line"}, bind_params |-> {}],
     params_schema |-> {"line"}, priority |-> 1],
    [id |-> 4, logical_definition_id |-> 2, engine_type |-> "sqlite", connection_ref |-> "default",
     sql_template |-> [text |-> "fpy_rework", placeholders |-> {"line"}, bind_params |-> {}],
     params_schema |-> {}, priority |-> 0],
    [id |-> 5, logical_definition_id |-> 5, engine_type |-> "postgres", connection_ref |-> "warehouse",
     sql_template |-> [text |-> "margin", placeholders |-> {}, bind_params |-> {}],
     params_schema |-> {}, priority |-> 1] >>

MetricEntityMapRows == <<
    [metric_id |-> 1, allowed_dimensions |-> {"region"}, forbidden_dimensions |-> {"secret"}] >>

AccessPolicyRows == <<
    [id |-> 1, semantic_object_id |-> 1, role |-> "operator", action |-> "query",
     condition |-> NoneDict, effect |-> "allow", priority |-> 0],
    [id |-> 2, semantic_object_id |-> 1, role |-> "anonymous", action |-> "*",
     condition |-> NoneDict, effect |-> "deny", priority |-> 1] >>

\* OrchestratorConfig.default_engine_type
default_engine_type == "sqlite"

\* ------------------------------------------------------------------------
\* The requests made to query()
\* ------------------------------------------------------------------------
ParamLine == Dict([line |-> "A", start_date |-> "yesterday"])
ParamLineOnly == Dict([k \in {"line"} |-> "A"])
ParamLineScenario == Dict([line |-> "A", scenario |-> K1A])
ParamNothing == Dict([k \in {} |-> None])
ParamForbiddenDimension == Dict([line |-> "A", start_date |-> "yesterday", dimensions |-> {"secret"}])

Requests ==
    [question : {<< <<"F", "P">> >>},
     parameters : {ParamLine, ParamLineOnly, ParamLineScenario, ParamNothing,
                   ParamForbiddenDimension},
     role : {"operator", "anonymous"}, preview_only : BOOLEAN, timestamp : {1}]
    \cup
    [question : {<< <<"p", "o">> >>, << <<"o", "f">> >>, << <<"o", "o">> >>,
                 << <<"p", "p">> >>, << <<"f", "o">> >>, << <<"F", "P">>, <<"p", "o">> >>},
     parameters : {ParamLine},
     role : {"operator"}, preview_only : BOOLEAN, timestamp : {1}]

DataSources ==
    {[broken |-> FALSE, rows |-> 2], [broken |-> FALSE, rows |-> 0], [broken |-> TRUE, rows |-> 0]}

\* ------------------------------------------------------------------------
\* orchestrator.py: SemanticOrchestrator.query, stage by stage
\* ------------------------------------------------------------------------
CallIds == 1..MaxCalls

NoRequest ==
    [question |-> <<>>, parameters |-> ParamNothing, role |-> None,
     preview_only |-> FALSE, timestamp |-> NoTime]
NoDecision == Decision(FALSE, None, 0, <<>>)
NoExecution == [success |-> FALSE, row_count |-> 0, error |-> None]
\* str(e): a message text with the number and the names it cites, if any
Msg(text) == [text |-> text, n |-> 0, names |-> {}]
NoException == [type |-> None, message |-> Msg(None), candidates |-> <<>>]
NoResult ==
    [audit_id |-> 0, status |-> None, error |-> Msg(None), error_type |-> None,
     candidates |-> <<>>, sql |-> NoSql, row_count |-> 0, decision_trace |-> <<>>]

\* the result of SQLiteAuditStore.load_audit when no row has the id
NoAudit == <<>>
NoReplayResult ==
    [kind |-> None, error |-> Msg(None), original_audit_id |-> 0, new_audit_id |-> 0,
     original |-> NoAudit, status |-> None, row_count |-> 0, decision_trace |-> <<>>]

\* the locals of replay() before its first statement
ReplayIds == 1..MaxReplays
IdleReplay ==
    [pc |-> "idle", audit_id |-> 0, original |-> NoAudit, replay_decision_trace |-> <<>>,
     execution_result |-> NoExecution, replay_audit_id |-> 0, result |-> NoReplayResult]

\* the locals of query() before its first statement
IdleCall ==
    [pc |-> "idle", request |-> NoRequest, audit_id |-> 0, decision_trace |-> <<>>,
     semantic_obj |-> 0, version |-> 0, logical_def |-> 0, physical_mapping |-> 0,
     policy_decision |-> NoDecision, sql |-> NoSql, execution_result |-> NoExecution,
     exc |-> NoException, result |-> NoResult]

Init ==
    /\ objects = SemanticObjectRows
    /\ versions = SemanticVersionRows
    /\ policies = AccessPolicyRows
    /\ logical_defs = LogicalDefinitionRows
    /\ mappings = PhysicalMappingRows
    /\ entity_maps = MetricEntityMapRows
    /\ metric_dependencies = <<>>
    /\ source \in DataSources
    /\ audits = <<>>
    /\ executed = <<>>
    /\ ids = 0
    /\ calls = [c \in CallIds |-> IdleCall]
    /\ replays = [r \in ReplayIds |-> IdleReplay]
    /\ clock = 0
    /\ arg = [op |-> "none"]
    /\ ret = NoRet

metadataVars == <<versions, objects, policies, logical_defs, mappings, entity_maps,
                  metric_dependencies, source, clock, arg, ret, replays>>

\* query() runs on the calling thread: the caller makes its c-th call when the
\* calls before it have ended
EarlierCallsEnded(c) == \A d \in 1..(c - 1) : calls[d].pc \in {"returned", "raised"}

\* trace(step, data)
Trace(call, step) == [call EXCEPT !.decision_trace = Append(@, step)]

\* control leaves the try block with exception e
Throw(call, type, message, candidates) ==
    [call EXCEPT !.pc = "except",
                 !.exc = [type |-> type, message |-> message, candidates |-> candidates]]

\* audit_id = self._generate_audit_id(); the locals are reset
StartQuery(c, req) ==
    /\ calls[c].pc = "idle"
    /\ EarlierCallsEnded(c)
    /\ ids' = ids + 1
    /\ calls' = [calls EXCEPT ![c] =
                    [IdleCall EXCEPT !.pc = "resolve_object", !.request = req,
                                     !.audit_id = ids + 1]]
    /\ UNCHANGED <<metadataVars, audits, executed>>

\* STEP 1
ResolveObjectStage(c) ==
    /\ calls[c].pc = "resolve_object"
    /\ LET started == Trace(calls[c], "resolve_semantic_object_start")
           r == resolve_semantic_object(objects, calls[c].request.question)
       IN calls' = [calls EXCEPT ![c] =
            IF r.kind = "raise" THEN Throw(started, r.error, Msg(r.error), r.candidates)
            ELSE [Trace(started, "resolve_semantic_object_complete")
                    EXCEPT !.semantic_obj = r.value, !.pc = "resolve_version"]]
    /\ UNCHANGED <<metadataVars, audits, executed, ids>>

\* STEP 2
ResolveVersionStage(c) ==
    /\ calls[c].pc = "resolve_version"
    /\ LET started == Trace(calls[c], "resolve_version_start")
           r == resolve_version(versions, calls[c].semantic_obj,
                                IF "scenario" \in DOMAIN calls[c].request.parameters.kv
                                THEN calls[c].request.parameters.kv["scenario"] ELSE NoneDict,
                                calls[c].request.timestamp, clock)
       IN calls' = [calls EXCEPT ![c] =
            IF r.kind = "raise" THEN Throw(started, r.error, Msg(r.error), r.candidates)
            ELSE [Trace(started, "resolve_version_complete")
                    EXCEPT !.version = r.value, !.pc = "resolve_logic"]]
    /\ UNCHANGED <<metadataVars, audits, executed, ids>>

\* STEP 3
ResolveLogicStage(c) ==
    /\ calls[c].pc = "resolve_logic"
    /\ LET started == Trace(calls[c], "resolve_logic_start")
           r == resolve_logic(logical_defs, calls[c].version)
       IN calls' = [calls EXCEPT ![c] =
            IF r.kind = "raise" THEN Throw(started, r.error, Msg(r.error), <<>>)
            ELSE [Trace(started, "resolve_logic_complete")
                    EXCEPT !.logical_def = r.value, !.pc = "grain_validation"]]
    /\ UNCHANGED <<metadataVars, audits, executed, ids>>

\* variant: a FAIL of the grain validator is traced and the pipeline goes on
GrainValidationStage_ContinuesOnFail(c) ==
    /\ calls[c].pc = "grain_validation"
    /\ LET traced == Trace(calls[c], "grain_validation")
       IN calls' = [calls EXCEPT ![c] = [traced EXCEPT !.pc = "resolve_mapping"]]
    /\ UNCHANGED <<metadataVars, audits, executed, ids>>

\* STEP 3.5
GrainValidationStage(c) ==
    /\ calls[c].pc = "grain_validation"
    /\ LET status == grain_validate(entity_maps, calls[c].semantic_obj,
                                    calls[c].request.parameters,
                                    RowById(logical_defs, calls[c].logical_def).grain)
           traced == Trace(calls[c], "grain_validation")
       IN calls' = [calls EXCEPT ![c] =
            IF status = "FAIL"
            THEN Throw(traced, "ValueError", Msg("ValueError: grain validation failed"), <<>>)
            ELSE [traced EXCEPT !.pc = "resolve_mapping"]]
    /\ UNCHANGED <<metadataVars, audits, executed, ids>>

\* STEP 4
ResolveMappingStage(c) ==
    /\ calls[c].pc = "resolve_mapping"
    /\ LET started == Trace(calls[c], "resolve_physical_mapping_start")
           r == resolve_physical_mapping(mappings, calls[c].logical_def, default_engine_type)
       IN calls' = [calls EXCEPT ![c] =
            IF r.kind = "raise" THEN Throw(started, r.error, Msg(r.error), <<>>)
            ELSE [Trace(started, "resolve_physical_mapping_complete")
                    EXCEPT !.physical_mapping = r.value, !.pc = "policy_check"]]
    /\ UNCHANGED <<metadataVars, audits, executed, ids>>

\* variant: the pipeline goes on to render whatever the policy engine answers
PolicyCheckStage_IgnoresDenial(c) ==
    /\ calls[c].pc = "policy_check"
    /\ LET started == Trace(calls[c], "policy_check_start")
           r == check_access(policies, calls[c].semantic_obj, calls[c].request.role,
                             "query", calls[c].request.parameters)
       IN calls' = [calls EXCEPT ![c] =
            [Trace(started, "policy_check_complete")
                EXCEPT !.policy_decision = r.decision, !.pc = "render_sql"]]
    /\ UNCHANGED <<metadataVars, audits, executed, ids>>

\* STEP 5
PolicyCheckStage(c) ==
    /\ calls[c].pc = "policy_check"
    /\ LET started == Trace(calls[c], "policy_check_start")
           r == check_access(policies, calls[c].semantic_obj, calls[c].request.role,
                             "query", calls[c].request.parameters)
       IN calls' = [calls EXCEPT ![c] =
            IF r.kind = "raise" THEN Throw(started, r.error, r.decision.reason, <<>>)
            ELSE [Trace(started, "policy_check_complete")
                    EXCEPT !.policy_decision = r.decision, !.pc = "render_sql"]]
    /\ UNCHANGED <<metadataVars, audits, executed, ids>>

\* STEP 6
RenderStage(c) ==
    /\ calls[c].pc = "render_sql"
    /\ LET started == Trace(calls[c], "render_sql_start")
           r == render_sql(RowById(mappings, calls[c].physical_mapping),
                           calls[c].request.parameters)
       IN calls' = [calls EXCEPT ![c] =
            IF r.kind = "raise"
            THEN Throw(started, "ValueError", [Msg(r.error) EXCEPT !.names = r.missing], <<>>)
            ELSE [Trace(started, "render_sql_complete")
                    EXCEPT !.sql = r.sql, !.pc = "preview_or_execute"]]
    /\ UNCHANGED <<metadataVars, audits, executed, ids>>

\* STEP 7, preview_only: the rendered query is returned, nothing is executed
PreviewReturn(c) ==
    /\ calls[c].pc = "preview_or_execute"
    /\ calls[c].request.preview_only
    /\ LET traced == Trace(calls[c], "preview_complete") IN
       calls' = [calls EXCEPT ![c] =
            [traced EXCEPT !.pc = "returned",
                           !.result = [NoResult EXCEPT !.audit_id = traced.audit_id,
                                                       !.status = "preview",
                                                       !.sql = traced.sql,
                                                       !.decision_trace = traced.decision_trace]]]
    /\ UNCHANGED <<metadataVars, audits, executed, ids>>

\* variant: a failed run is submitted to the executor a second time
ExecuteStage_RetriesOnce(c) ==
    /\ calls[c].pc = "preview_or_execute"
    /\ ~calls[c].request.preview_only
    /\ LET started == Trace(calls[c], "execution_start")
           connection_ref == RowById(mappings, calls[c].physical_mapping).connection_ref
           invocation == [audit_id |-> calls[c].audit_id, sql |-> calls[c].sql,
                          connection_ref |-> connection_ref,
                          parameters |-> calls[c].request.parameters, db |-> source]
           result == execute(calls[c].sql, connection_ref, calls[c].request.parameters, source)
       IN /\ executed' = IF result.success THEN Append(executed, invocation)
                         ELSE Append(Append(executed, invocation), invocation)
          /\ calls' = [calls EXCEPT ![c] =
                [Trace(started, "execution_complete")
                    EXCEPT !.execution_result = result, !.pc = "audit"]]
    /\ UNCHANGED <<metadataVars, audits, ids>>

\* STEP 8
ExecuteStage(c) ==
    /\ calls[c].pc = "preview_or_execute"
    /\ ~calls[c].request.preview_only
    /\ LET started == Trace(calls[c], "execution_start")
           connection_ref == RowById(mappings, calls[c].physical_mapping).connection_ref
       IN /\ executed' = Append(executed,
                [audit_id |-> calls[c].audit_id, sql |-> calls[c].sql,
                 connection_ref |-> connection_ref,
                 parameters |-> calls[c].request.parameters, db |-> source])
          /\ calls' = [calls EXCEPT ![c] =
                [Trace(started, "execution_complete")
                    EXCEPT !.execution_result = execute(calls[c].sql, connection_ref,
                                                        calls[c].request.parameters, source),
                           !.pc = "audit"]]
    /\ UNCHANGED <<metadataVars, audits, ids>>

\* _create_audit_record
_create_audit_record(call, status) ==
    [audit_id |-> call.audit_id,
     question |-> call.request.question,
     semantic_object_id |-> call.semantic_obj,
     version_id |-> call.version,
     logical_definition_id |-> call.logical_def,
     physical_mapping_id |-> call.physical_mapping,
     connection_ref |-> RowById(mappings, call.physical_mapping).connection_ref,
     final_sql |-> call.sql,
     decision_trace |-> call.decision_trace,
     user_role |-> call.request.role,
     status |-> status,
     row_count |-> call.execution_result.row_count,
     error_message |-> Msg(call.execution_result.error)]

\* SQLiteAuditStore.save_denied: the row it inserts
save_denied(call, error) ==
    [audit_id |-> call.audit_id,
     question |-> call.request.question,
     semantic_object_id |-> call.semantic_obj,
     version_id |-> 0,
     logical_definition_id |-> 0,
     physical_mapping_id |-> 0,
     connection_ref |-> None,
     final_sql |-> NoSql,
     decision_trace |-> call.decision_trace,
     user_role |-> call.request.role,
     status |-> "denied",
     row_count |-> 0,
     error_message |-> error]

\* variant: the result is returned without the audit record being saved
AuditStage_Unsaved(c, store_ok) ==
    /\ calls[c].pc = "audit"
    /\ LET status == IF calls[c].execution_result.success THEN "success" ELSE "error"
           audit_record == _create_audit_record(calls[c], status)
       IN /\ audits' = audits
          /\ calls' = [calls EXCEPT ![c] =
                [@ EXCEPT !.pc = "returned",
                          !.result = [NoResult EXCEPT
                              !.audit_id = calls[c].audit_id,
                              !.status = audit_record.status,
                              !.sql = calls[c].sql,
                              !.row_count = calls[c].execution_result.row_count,
                              !.decision_trace = calls[c].decision_trace]]]
    /\ UNCHANGED <<metadataVars, executed, ids>>

\* STEP 9: the audit record is saved and the result returned; a failing audit
\* store raises inside the try block
AuditStage(c, store_ok) ==
    /\ calls[c].pc = "audit"
    /\ LET status == IF calls[c].execution_result.success THEN "success" ELSE "error"
           audit_record == _create_audit_record(calls[c], status)
       IN IF store_ok
          THEN /\ audits' = Append(audits, audit_record)
               /\ calls' = [calls EXCEPT ![c] =
                     [@ EXCEPT !.pc = "returned",
                               !.result = [NoResult EXCEPT
                                   !.audit_id = calls[c].audit_id,
                                   !.status = audit_record.status,
                                   !.sql = calls[c].sql,
                                   !.row_count = calls[c].execution_result.row_count,
                                   !.decision_trace = calls[c].decision_trace]]]
          ELSE /\ audits' = audits
               /\ calls' = [calls EXCEPT ![c] =
                     Throw(@, "OperationalError", Msg("audit store failed"), <<>>)]
    /\ UNCHANGED <<metadataVars, executed, ids>>

\* the except clause that catches an exception of the given type
HandlerOf(type) ==
    IF type = "PolicyDeniedError" THEN "policy_denied"
    ELSE IF type \in {"AmbiguityError", "VersionNotFoundError"} THEN "resolution_error"
    ELSE "unexpected_error"

\* variant: the resolution-error clause returns without calling _audit_denied
HandleException_ResolutionErrorUnaudited(c, store_ok) ==
    /\ calls[c].pc = "except"
    /\ LET handler == HandlerOf(calls[c].exc.type)
           traced == Trace(calls[c], handler)
       IN IF store_ok \/ handler = "resolution_error"
          THEN /\ audits' = IF handler = "resolution_error" THEN audits
                            ELSE Append(audits, save_denied(traced, traced.exc.message))
               /\ calls' = [calls EXCEPT ![c] =
                     [traced EXCEPT !.pc = "returned",
                          !.result = [NoResult EXCEPT
                              !.audit_id = traced.audit_id,
                              !.status = IF handler = "policy_denied" THEN "denied" ELSE "error",
                              !.error = traced.exc.message,
                              !.error_type = IF handler = "resolution_error"
                                             THEN traced.exc.type ELSE None,
                              !.candidates = IF traced.exc.type = "AmbiguityError"
                                             THEN traced.exc.candidates ELSE <<>>,
                              !.decision_trace = traced.decision_trace]]]
          ELSE /\ audits' = audits
               /\ calls' = [calls EXCEPT ![c] = [traced EXCEPT !.pc = "raised"]]
    /\ UNCHANGED <<metadataVars, executed, ids>>

\* the except clauses: trace, _audit_denied, structured result; a failing
\* audit store makes the exception leave query()
HandleException(c, store_ok) ==
    /\ calls[c].pc = "except"
    /\ LET handler == HandlerOf(calls[c].exc.type)
           traced == Trace(calls[c], handler)
       IN IF store_ok
          THEN /\ audits' = Append(audits, save_denied(traced, traced.exc.message))
               /\ calls' = [calls EXCEPT ![c] =
                     [traced EXCEPT !.pc = "returned",
                          !.result = [NoResult EXCEPT
                              !.audit_id = traced.audit_id,
                              !.status = IF handler = "policy_denied" THEN "denied" ELSE "error",
                              !.error = traced.exc.message,
                              !.error_type = IF handler = "resolution_error"
                                             THEN traced.exc.type ELSE None,
                              !.candidates = IF traced.exc.type = "AmbiguityError"
                                             THEN traced.exc.candidates ELSE <<>>,
                              !.decision_trace = traced.decision_trace]]]
          ELSE /\ audits' = audits
               /\ calls' = [calls EXCEPT ![c] = [traced EXCEPT !.pc = "raised"]]
    /\ UNCHANGED <<metadataVars, executed, ids>>

Stages(c) ==
    \/ ResolveObjectStage(c)
    \/ ResolveVersionStage(c)
    \/ ResolveLogicStage(c)
    \/ GrainValidationStage(c)
    \/ ResolveMappingStage(c)
    \/ PolicyCheckStage(c)
    \/ RenderStage(c)
    \/ PreviewReturn(c)
    \/ ExecuteStage(c)

\* the collaborators answer: the audit store accepts every insert
Next ==
    \E c \in CallIds :
        \/ \E req \in Requests : StartQuery(c, req)
        \/ Stages(c)
        \/ AuditStage(c, TRUE)
        \/ HandleException(c, TRUE)

Spec == Init /\ [][Next]_vars

\* the audit store may reject an insert (locked database, unserialisable value)
NextFaults ==
    \E c \in CallIds :
        \/ \E req \in Requests : StartQuery(c, req)
        \/ Stages(c)
        \/ \E store_ok \in BOOLEAN : AuditStage(c, store_ok)
        \/ \E store_ok \in BOOLEAN : HandleException(c, store_ok)

SpecFaults == Init /\ [][NextFaults]_vars

\* ---- the statements about query() ----
\* positions of the audit rows keyed by an audit id
RowsOf(audit_id) == {i \in 1..Len(audits) : audits[i].audit_id = audit_id}

\* positions of step in a trace
Occurs(trace, step) == {i \in 1..Len(trace) : trace[i] = step}

Returned(c) == calls[c].pc = "returned"

\* C1: every query() call with preview_only=false that ends with status
\* success, denied or error has inserted exactly one row into the audit
\* store, keyed by the audit_id returned to the caller; never zero, never two.
C1_ExactlyOneAuditRowPerCall ==
    /\ \A c \in CallIds :
          (/\ Returned(c)
           /\ ~calls[c].request.preview_only
           /\ calls[c].result.status \in {"success", "denied", "error"})
          => /\ calls[c].result.audit_id = calls[c].audit_id
             /\ Cardinality(RowsOf(calls[c].result.audit_id)) = 1
    /\ \A i \in 1..Len(audits) :
          \E c \in CallIds : calls[c].pc # "idle" /\ audits[i].audit_id = calls[c].audit_id

\* C1 witness: the insert of the success row was rejected, the failure was
\* caught at the top level and audited, and the call returned an error
C1_Witness ==
    \E c \in CallIds :
        /\ Returned(c)
        /\ ~calls[c].request.preview_only
        /\ calls[c].result.status = "error"
        /\ Occurs(calls[c].decision_trace, "execution_complete") # {}
        /\ Occurs(calls[c].decision_trace, "unexpected_error") # {}
        /\ Cardinality(RowsOf(calls[c].result.audit_id)) = 1

\* the policy engine's answer for the call's resolved object, role and parameters
PolicyAnswer(c) ==
    check_access(policies, calls[c].semantic_obj, calls[c].request.role, "query",
                 calls[c].request.parameters)

\* the call has reached the policy check
PolicyConsulted(c) == Occurs(calls[c].decision_trace, "policy_check_start") # {}

\* the queries the executor ran for the call
ExecutedFor(c) == {i \in 1..Len(executed) : executed[i].audit_id = calls[c].audit_id}

\* C2: in any query() call the template is rendered and the executor invoked
\* only after the policy engine has allowed (object, role, 'query'); when it
\* denies, the call returns status 'denied' with the policy reason, the
\* executor is never invoked and the audit row of the call has status 'denied'.
C2_PolicyGatesRenderAndExecute ==
    \A c \in CallIds :
        /\ (\/ Occurs(calls[c].decision_trace, "render_sql_start") # {}
            \/ calls[c].sql # NoSql
            \/ ExecutedFor(c) # {})
           => /\ PolicyConsulted(c)
              /\ PolicyAnswer(c).kind = "return"
              /\ calls[c].policy_decision = PolicyAnswer(c).decision
              /\ \A r \in Occurs(calls[c].decision_trace, "render_sql_start") :
                    \E p \in Occurs(calls[c].decision_trace, "policy_check_complete") : p < r
        /\ (PolicyConsulted(c) /\ PolicyAnswer(c).kind = "raise")
           => /\ ExecutedFor(c) = {}
              /\ calls[c].pc \in {"policy_check", "except", "returned"}
              /\ Returned(c) =>
                    /\ calls[c].result.status = "denied"
                    /\ calls[c].result.error = PolicyAnswer(c).decision.reason
                    /\ \A i \in RowsOf(calls[c].audit_id) : audits[i].status = "denied"
                    /\ RowsOf(calls[c].audit_id) # {}

\* C2 witness: a call denied by the deny policy has returned, nothing was executed for it
C2_Witness ==
    \E c \in CallIds :
        /\ Returned(c)
        /\ calls[c].result.status = "denied"
        /\ calls[c].result.error.text = "Denied by policy"
        /\ ExecutedFor(c) = {}
        /\ \E d \in CallIds : ExecutedFor(d) # {} /\ calls[d].policy_decision.allow

\* ------------------------------------------------------------------------
\* orchestrator.py: SemanticOrchestrator.replay
\* ------------------------------------------------------------------------
\* SQLiteAuditStore.load_audit: fetchone() of the rows with the id, or None
load_audit(table, audit_id) ==
    LET found == SelectSeq(table, LAMBDA a : a.audit_id = audit_id) IN
    IF found = <<>> THEN NoAudit ELSE <<found[1]>>

\* the empty query text ''
EmptySql == [template |-> "", jinja |-> [k \in {} |-> None], bind_params |-> {}]

\* an entry of replay_decision_trace
ReplayTrace(step, audit_id, original) ==
    [step |-> step,
     replay_mode |-> step = "replay_start",
     replay_source_audit_id |-> IF step = "replay_start" THEN audit_id ELSE 0,
     sql |-> IF step = "replay_execution_complete" THEN NoSql ELSE original.final_sql]

\* variant: the new row is written without the query text
replay_audit_record_without_sql(replay, replay_audit_id) ==
    LET original == replay.original[1] IN
    [audit_id |-> replay_audit_id,
     question |-> original.question,
     semantic_object_id |-> original.semantic_object_id,
     version_id |-> original.version_id,
     logical_definition_id |-> original.logical_definition_id,
     physical_mapping_id |-> original.physical_mapping_id,
     connection_ref |-> IF original.connection_ref = None THEN "" ELSE original.connection_ref,
     final_sql |-> EmptySql,
     decision_trace |-> replay.replay_decision_trace,
     user_role |-> IF original.user_role = None THEN "unknown" ELSE original.user_role,
     status |-> IF replay.execution_result.success THEN "success" ELSE "error",
     row_count |-> replay.execution_result.row_count,
     error_message |-> Msg(replay.execution_result.error)]

\* variant: the new row is written under the id of the row it replays
replay_audit_record_same_id(replay, replay_audit_id) ==
    LET original == replay.original[1] IN
    [audit_id |-> original.audit_id,
     question |-> original.question,
     semantic_object_id |-> original.semantic_object_id,
     version_id |-> original.version_id,
     logical_definition_id |-> original.logical_definition_id,
     physical_mapping_id |-> original.physical_mapping_id,
     connection_ref |-> IF original.connection_ref = None THEN "" ELSE original.connection_ref,
     final_sql |-> IF original.final_sql = NoSql THEN EmptySql ELSE original.final_sql,
     decision_trace |-> replay.replay_decision_trace,
     user_role |-> IF original.user_role = None THEN "unknown" ELSE original.user_role,
     status |-> IF replay.execution_result.success THEN "success" ELSE "error",
     row_count |-> replay.execution_result.row_count,
     error_message |-> Msg(replay.execution_result.error)]

\* the record replay() hands to _create_audit_record: the stored ids and
\* texts of the original, "or"-ed with their defaults, and the new result
replay_audit_record(replay, replay_audit_id) ==
    LET original == replay.original[1] IN
    [audit_id |-> replay_audit_id,
     question |-> original.question,
     semantic_object_id |-> original.semantic_object_id,
     version_id |-> original.version_id,
     logical_definition_id |-> original.logical_definition_id,
     physical_mapping_id |-> original.physical_mapping_id,
     connection_ref |-> IF original.connection_ref = None THEN "" ELSE original.connection_ref,
     final_sql |-> IF original.final_sql = NoSql THEN EmptySql ELSE original.final_sql,
     decision_trace |-> replay.replay_decision_trace,
     user_role |-> IF original.user_role = None THEN "unknown" ELSE original.user_role,
     status |-> IF replay.execution_result.success THEN "success" ELSE "error",
     row_count |-> replay.execution_result.row_count,
     error_message |-> Msg(replay.execution_result.error)]

\* the caller is one thread: a query() and a replay() do not overlap
NoQueryRunning == \A c \in CallIds : calls[c].pc \in {"idle", "returned", "raised"}
NoReplayRunning == \A r \in ReplayIds : replays[r].pc \in {"idle", "returned", "raised"}
EarlierReplaysEnded(r) == \A q \in 1..(r - 1) : replays[q].pc \in {"returned", "raised"}

replayVars == <<versions, objects, policies, logical_defs, mappings, entity_maps,
                  metric_dependencies, source, clock, arg, ret, calls>>

\* variant: a stored row is replayed whatever its status
StartReplay_AnyStatus(r, audit_id) ==
    /\ replays[r].pc = "idle"
    /\ EarlierReplaysEnded(r)
    /\ NoQueryRunning
    /\ LET original == load_audit(audits, audit_id)
           started == [IdleReplay EXCEPT !.audit_id = audit_id, !.original = original]
       IN replays' = [replays EXCEPT ![r] =
            IF original = NoAudit
            THEN [started EXCEPT !.pc = "raised",
                     !.result = [NoReplayResult EXCEPT
                         !.kind = "raise",
                         !.error = Msg("ValueError: Audit record not found")]]
            ELSE [started EXCEPT !.pc = "replay_execute",
                     !.replay_decision_trace =
                         << ReplayTrace("replay_start", audit_id, original[1]),
                            ReplayTrace("replay_execution_start", audit_id, original[1]) >>]]
    /\ UNCHANGED <<replayVars, audits, executed, ids>>

\* original = self._load_audit(audit_id); unknown id: ValueError; status other
\* than 'success': the structured refusal is returned
StartReplay(r, audit_id) ==
    /\ replays[r].pc = "idle"
    /\ EarlierReplaysEnded(r)
    /\ NoQueryRunning
    /\ LET original == load_audit(audits, audit_id)
           started == [IdleReplay EXCEPT !.audit_id = audit_id, !.original = original]
       IN replays' = [replays EXCEPT ![r] =
            IF original = NoAudit
            THEN [started EXCEPT !.pc = "raised",
                     !.result = [NoReplayResult EXCEPT
                         !.kind = "raise",
                         !.error = Msg("ValueError: Audit record not found")]]
            ELSE IF original[1].status # "success"
            THEN [started EXCEPT !.pc = "returned",
                     !.result = [NoReplayResult EXCEPT
                         !.kind = "refused",
                         !.error = Msg("Cannot replay query with status"),
                         !.original = original]]
            ELSE [started EXCEPT !.pc = "replay_execute",
                     !.replay_decision_trace =
                         << ReplayTrace("replay_start", audit_id, original[1]),
                            ReplayTrace("replay_execution_start", audit_id, original[1]) >>]]
    /\ UNCHANGED <<replayVars, audits, executed, ids>>

\* variant: the query is rendered again from the mapping the row names
ReplayExecute_RendersAgain(r) ==
    /\ replays[r].pc = "replay_execute"
    /\ LET original == replays[r].original[1]
           mapping == RowById(mappings, original.physical_mapping_id)
           sql == [original.final_sql EXCEPT !.template = mapping.sql_template.text]
           result == execute(sql, mapping.connection_ref, NoneDict, source)
       IN /\ executed' = Append(executed,
                [audit_id |-> 0 - r, sql |-> sql,
                 connection_ref |-> mapping.connection_ref,
                 parameters |-> NoneDict, db |-> source])
          /\ replays' = [replays EXCEPT ![r] =
                [@ EXCEPT !.pc = "replay_audit",
                          !.execution_result = result,
                          !.replay_decision_trace =
                              Append(@, ReplayTrace("replay_execution_complete",
                                                    replays[r].audit_id, original))]]
    /\ UNCHANGED <<replayVars, audits, ids>>

\* execution_engine.execute(original.final_sql, original.connection_ref): no
\* parameters are passed. The invocation is logged under minus the index of
\* the replay, whose audit id is generated after the run.
ReplayExecute(r) ==
    /\ replays[r].pc = "replay_execute"
    /\ LET original == replays[r].original[1]
           result == execute(original.final_sql, original.connection_ref, NoneDict, source)
       IN /\ executed' = Append(executed,
                [audit_id |-> 0 - r, sql |-> original.final_sql,
                 connection_ref |-> original.connection_ref,
                 parameters |-> NoneDict, db |-> source])
          /\ replays' = [replays EXCEPT ![r] =
                [@ EXCEPT !.pc = "replay_audit",
                          !.execution_result = result,
                          !.replay_decision_trace =
                              Append(@, ReplayTrace("replay_execution_complete",
                                                    replays[r].audit_id, original))]]
    /\ UNCHANGED <<replayVars, audits, ids>>

\* variant: the replay row is written over the row it replays
ReplayAudit_OverwritesSource(r, store_ok) ==
    /\ replays[r].pc = "replay_audit"
    /\ ids' = ids + 1
    /\ LET replay_audit_id == ids + 1
           replay_audit == replay_audit_record(replays[r], replay_audit_id)
       IN IF store_ok
          THEN /\ audits' = [i \in 1..Len(audits) |->
                                IF audits[i].audit_id = replays[r].audit_id
                                THEN replay_audit ELSE audits[i]]
               /\ replays' = [replays EXCEPT ![r] =
                     [@ EXCEPT !.pc = "returned",
                               !.replay_audit_id = replay_audit_id,
                               !.result = [NoReplayResult EXCEPT
                                   !.kind = "return",
                                   !.original_audit_id = replays[r].audit_id,
                                   !.new_audit_id = replay_audit_id,
                                   !.original = replays[r].original,
                                   !.status = replay_audit.status,
                                   !.row_count = replays[r].execution_result.row_count,
                                   !.decision_trace = replays[r].replay_decision_trace]]]
          ELSE /\ audits' = audits
               /\ replays' = [replays EXCEPT ![r] =
                     [@ EXCEPT !.pc = "raised",
                               !.replay_audit_id = replay_audit_id,
                               !.result = [NoReplayResult EXCEPT
                                   !.kind = "raise",
                                   !.error = Msg("audit store failed")]]]
    /\ UNCHANGED <<replayVars, executed>>

\* replay_audit_id = self._generate_audit_id(); self._save_audit(replay_audit);
\* the result is returned. A failing audit store makes replay() raise.
ReplayAudit(r, store_ok) ==
    /\ replays[r].pc = "replay_audit"
    /\ ids' = ids + 1
    /\ LET replay_audit_id == ids + 1
           replay_audit == replay_audit_record(replays[r], replay_audit_id)
       IN IF store_ok
          THEN /\ audits' = Append(audits, replay_audit)
               /\ replays' = [replays EXCEPT ![r] =
                     [@ EXCEPT !.pc = "returned",
                               !.replay_audit_id = replay_audit_id,
                               !.result = [NoReplayResult EXCEPT
                                   !.kind = "return",
                                   !.original_audit_id = replays[r].audit_id,
                                   !.new_audit_id = replay_audit_id,
                                   !.original = replays[r].original,
                                   !.status = replay_audit.status,
                                   !.row_count = replays[r].execution_result.row_count,
                                   !.decision_trace = replays[r].replay_decision_trace]]]
          ELSE /\ audits' = audits
               /\ replays' = [replays EXCEPT ![r] =
                     [@ EXCEPT !.pc = "raised",
                               !.replay_audit_id = replay_audit_id,
                               !.result = [NoReplayResult EXCEPT
                                   !.kind = "raise",
                                   !.error = Msg("audit store failed")]]]
    /\ UNCHANGED <<replayVars, executed>>

\* ------------------------------------------------------------------------
\* What happens around the orchestrator between two calls
\* ------------------------------------------------------------------------
\* the underlying data changes: rows are added to a working data source, or
\* the data source goes down
ChangeData ==
    /\ NoQueryRunning /\ NoReplayRunning
    /\ audits # <<>>
    /\ ~source.broken
    /\ source' \in {d \in DataSources : d.broken \/ d.rows > source.rows}
    /\ UNCHANGED <<versions, objects, policies, logical_defs, mappings, entity_maps,
                  metric_dependencies, clock, arg, ret, audits, executed, ids, calls, replays>>

\* the governance metadata after a revision: the default version of object 1
\* is retired, every mapping gets a new template text and another connection,
\* and the role that was allowed is now denied
RevisedVersionRows ==
    [i \in 1..Len(SemanticVersionRows) |->
        IF SemanticVersionRows[i].id = 1
        THEN [SemanticVersionRows[i] EXCEPT !.is_active = FALSE]
        ELSE SemanticVersionRows[i]]
RevisedMappingRows ==
    [i \in 1..Len(PhysicalMappingRows) |->
        [PhysicalMappingRows[i] EXCEPT !.connection_ref = "replica",
                                       !.sql_template.text = <<@, "revised">>]]
RevisedPolicyRows ==
    [i \in 1..Len(AccessPolicyRows) |-> [AccessPolicyRows[i] EXCEPT !.effect = "deny"]]

ChangeGovernance ==
    /\ NoQueryRunning /\ NoReplayRunning
    /\ audits # <<>>
    /\ mappings = PhysicalMappingRows
    /\ versions' = RevisedVersionRows
    /\ mappings' = RevisedMappingRows
    /\ policies' = RevisedPolicyRows
    /\ UNCHANGED <<objects, logical_defs, entity_maps, metric_dependencies, source, clock, arg, ret,
                   audits, executed, ids, calls, replays>>

\* the requests whose audit rows the replays are made of; the caller makes
\* its queries before its replays
ReplayRequests ==
    [question : {<< <<"F", "P">> >>}, parameters : {ParamLine, ParamLineScenario},
     role : {"operator"}, preview_only : {FALSE}, timestamp : {1}]
    \cup
    {[question |-> << <<"F", "P">> >>, parameters |-> ParamLine, role |-> "anonymous",
      preview_only |-> FALSE, timestamp |-> 1],
     [question |-> << <<"F", "P">> >>, parameters |-> ParamLineScenario, role |-> "operator",
      preview_only |-> TRUE, timestamp |-> 1]}

NextReplay ==
    \/ \E c \in CallIds :
        \/ \E req \in ReplayRequests : replays[1].pc = "idle" /\ StartQuery(c, req)
        \/ Stages(c)
        \/ AuditStage(c, TRUE)
        \/ HandleException(c, TRUE)
    \/ \E r \in ReplayIds :
        \/ \E audit_id \in 1..(ids + 1) : StartReplay(r, audit_id)
        \/ ReplayExecute(r)
        \/ \E store_ok \in BOOLEAN : ReplayAudit(r, store_ok)
    \/ ChangeData
    \/ ChangeGovernance

SpecReplay == Init /\ [][NextReplay]_vars

\* ---- the statements about replay() ----
\* positions of the executor invocations made by replay r
ReplayExecutions(r) == {i \in 1..Len(executed) : executed[i].audit_id = 0 - r}

\* positions of the executor invocation whose outcome the audit row with the
\* given id records: the one of the query() call or of the replay() that wrote it
ExecutionsRecordedIn(audit_id) ==
    {i \in 1..Len(executed) :
        \/ executed[i].audit_id = audit_id
        \/ \E q \in ReplayIds : /\ replays[q].result.kind = "return"
                                /\ replays[q].replay_audit_id = audit_id
                                /\ executed[i].audit_id = 0 - q}

\* replay r has run the query of the row it was given
Replayed(r) == replays[r].result.kind = "return"

\* replay r was given a row that a replay wrote
ReplayOfReplay(r) ==
    \E q \in ReplayIds : Replayed(q) /\ replays[q].result.new_audit_id = replays[r].audit_id

\* C11: for every stored audit row with status success, replay(id) submits to
\* the executor exactly the final_sql stored in that row, against the
\* connection_ref stored in that row, and the new audit row it writes stores
\* that same final_sql; also when the source row was written by a replay.
C11_ReplaySubmitsStoredQuery ==
    \A r \in ReplayIds :
        LET stored == load_audit(audits, replays[r].audit_id) IN
        /\ ReplayExecutions(r) # {} =>
              /\ stored # NoAudit
              /\ stored[1].status = "success"
              /\ Cardinality(ReplayExecutions(r)) = 1
              /\ \A i \in ReplayExecutions(r) :
                    /\ executed[i].sql = stored[1].final_sql
                    /\ executed[i].connection_ref = stored[1].connection_ref
        /\ replays[r].pc = "replay_audit" => ReplayExecutions(r) # {}
        /\ Replayed(r) =>
              LET new == load_audit(audits, replays[r].result.new_audit_id) IN
              /\ ReplayExecutions(r) # {}
              /\ new # NoAudit
              /\ new[1].final_sql = stored[1].final_sql
              /\ new[1].final_sql = replays[r].result.original[1].final_sql

\* C11 witness: a replay of a row written by a replay has run and returned
C11_Witness ==
    \E r \in ReplayIds :
        /\ Replayed(r)
        /\ ReplayOfReplay(r)
        /\ ReplayExecutions(r) # {}
        /\ load_audit(audits, replays[r].audit_id)[1].final_sql.template = "fpy_rework"

\* the step in which replay r loads the row and decides
ReplayDecides(r) == replays[r].pc = "idle" /\ replays'[r].pc # "idle"

\* C12: replay(audit_id) invokes the executor and writes an audit row only
\* when the audit store holds a row with that id whose status is 'success';
\* for a stored row with any other status it returns a structured error that
\* contains the original audit and does not raise; for an unknown id it fails
\* with a not-found error; in both refusals the executor is not invoked and
\* the audit store is unchanged.
C12_ReplayOnlySuccessfulRows ==
    [][\A r \in ReplayIds :
        /\ ReplayDecides(r) =>
              LET stored == load_audit(audits, replays'[r].audit_id) IN
              /\ audits' = audits
              /\ executed' = executed
              /\ stored = NoAudit =>
                    /\ replays'[r].pc = "raised"
                    /\ replays'[r].result.kind = "raise"
                    /\ replays'[r].result.error.text = "ValueError: Audit record not found"
              /\ (stored # NoAudit /\ stored[1].status # "success") =>
                    /\ replays'[r].pc = "returned"
                    /\ replays'[r].result.kind = "refused"
                    /\ replays'[r].result.original = stored
              /\ (stored # NoAudit /\ stored[1].status = "success") =>
                    /\ replays'[r].pc = "replay_execute"
                    /\ replays'[r].original = stored
        /\ (replays[r].pc # "idle" /\ replays[r].pc # replays'[r].pc) =>
              /\ replays[r].pc \in {"replay_execute", "replay_audit"}
              /\ replays[r].original # NoAudit
              /\ replays[r].original[1].status = "success"
              /\ replays[r].original = load_audit(audits, replays[r].audit_id)
        /\ (ReplayExecutions(r) # {} \/ replays[r].replay_audit_id # 0) =>
              /\ replays[r].original # NoAudit
              /\ replays[r].original[1].status = "success"
      ]_vars

\* C12 witness: one replay was refused for a denied row, another failed for an
\* unknown id, and the executor was invoked by no replay
C12_Witness ==
    /\ \E r \in ReplayIds :
          /\ replays[r].result.kind = "refused"
          /\ replays[r].result.original[1].status = "denied"
    /\ \E r \in ReplayIds :
          /\ replays[r].result.kind = "raise"
          /\ replays[r].original = NoAudit
    /\ \A r \in ReplayIds : ReplayExecutions(r) = {}

\* the steps a replay traces
ReplaySteps == {"replay_start", "replay_execution_start", "replay_execution_complete"}

\* C13: replay() never invokes the semantic resolver, the scenario matcher or
\* the policy engine and reads nothing from the metadata or policy stores:
\* the query it executes is the one the recorded execution ran, whatever the
\* versions, mappings and policies have become since.
C13_ReplayIgnoresGovernanceMetadata ==
    \A r \in ReplayIds :
        /\ \A i \in ReplayExecutions(r) :
              /\ ExecutionsRecordedIn(replays[r].audit_id) # {}
              /\ \A j \in ExecutionsRecordedIn(replays[r].audit_id) :
                    /\ executed[i].sql = executed[j].sql
                    /\ executed[i].connection_ref = executed[j].connection_ref
        /\ \A k \in 1..Len(replays[r].replay_decision_trace) :
              replays[r].replay_decision_trace[k].step \in ReplaySteps

\* C13 witness: versions, mappings and policies were revised after the
\* recorded execution and before the replay, which has run the recorded query:
\* the mapping the row names now holds another text and another connection,
\* and the policy engine now denies the role of the row
C13_Witness ==
    \E r \in ReplayIds :
        /\ replays[r].pc = "replay_audit"
        /\ versions = RevisedVersionRows /\ mappings = RevisedMappingRows
        /\ policies = RevisedPolicyRows
        /\ LET original == replays[r].original[1]
               mapping == RowById(mappings, original.physical_mapping_id)
           IN /\ original.final_sql.template = "fpy"
              /\ mapping.sql_template.text # original.final_sql.template
              /\ mapping.connection_ref # original.connection_ref
              /\ check_access(policies, original.semantic_object_id, original.user_role,
                              "query", NoneDict).kind = "raise"
              /\ \E i \in ReplayExecutions(r) : executed[i].sql = original.final_sql

\* the rows written by query() calls
RowsOfCalls ==
    {i \in 1..Len(audits) : \E c \in CallIds : audits[i].audit_id = calls[c].audit_id}

C15_ReplayReproducesAnswer ==
    \A r \in ReplayIds :
        Replayed(r) =>
            \A i \in ReplayExecutions(r) :
                \A j \in ExecutionsRecordedIn(replays[r].audit_id) :
                    executed[i].db = executed[j].db =>
                        /\ replays[r].result.status = "success"
                        /\ replays[r].result.row_count
                              = replays[r].result.original[1].row_count

\* ---- the statements about the outcomes of query() ----
\* C16: query() never propagates an exception to its caller: whichever
\* collaborator fails at whichever stage, query() returns a structured result
\* with status denied or error.
C16_QueryNeverPropagates ==
    \A c \in CallIds :
        /\ calls[c].pc # "raised"
        /\ (Returned(c) /\ calls[c].exc.type # None)
              => calls[c].result.status \in {"denied", "error"}

\* C17: for every query() call that writes an audit row, the status stored in
\* that row equals the status returned to the caller: 'error' is audited as
\* 'error' and 'denied' as 'denied'.
C17_AuditedStatusIsReturnedStatus ==
    \A c \in CallIds :
        Returned(c) =>
            \A i \in RowsOf(calls[c].audit_id) : audits[i].status = calls[c].result.status

\* the call went through render_sql without an exception
Rendered(c) == Occurs(calls[c].decision_trace, "render_sql_complete") # {}

\* C18: a query() call with preview_only=true never invokes the query
\* executor and never writes an audit row, whatever stage it ends at; when
\* every stage through render succeeds it returns status 'preview' with the
\* rendered query and no data.
C18_PreviewExecutesAndPersistsNothing ==
    \A c \in CallIds :
        calls[c].request.preview_only =>
            /\ ExecutedFor(c) = {}
            /\ RowsOf(calls[c].audit_id) = {}
            /\ (Returned(c) /\ Rendered(c)) =>
                  /\ calls[c].result.status = "preview"
                  /\ calls[c].result.sql = calls[c].sql
                  /\ calls[c].result.sql # NoSql
                  /\ calls[c].result.row_count = 0

AbsentParameters(c) ==
    {k \in RowById(mappings, calls[c].physical_mapping).params_schema :
        k \notin DOMAIN calls[c].request.parameters.kv}

\* the call has reached render_sql
RenderAttempted(c) == Occurs(calls[c].decision_trace, "render_sql_start") # {}

ExecutorRaised(c) ==
    \E i \in ExecutedFor(c) :
        query_executor_execute(executed[i].sql, executed[i].connection_ref,
                               executed[i].parameters, executed[i].db).kind = "raise"

\* C21: execute() invokes the downstream query executor exactly once per call
\* and never retries; if that invocation raises, execute() returns a result
\* with success=false and the error message instead of raising, and the
\* enclosing query() still reaches audit persistence and returns 'error'.
C21_ExecuteOnceFailureCaptured ==
    \A c \in CallIds :
        /\ Cardinality(ExecutedFor(c)) <= 1
        /\ Occurs(calls[c].decision_trace, "execution_complete") # {}
              => Cardinality(ExecutedFor(c)) = 1
        /\ ExecutorRaised(c) =>
              /\ ~calls[c].execution_result.success
              /\ calls[c].execution_result.error # None
              /\ calls[c].exc = NoException
              /\ calls[c].pc \in {"audit", "returned"}
              /\ Returned(c) =>
                    /\ calls[c].result.status = "error"
                    /\ \E i \in RowsOf(calls[c].audit_id) :
                          /\ audits[i].status = "error"
                          /\ audits[i].error_message.text = calls[c].execution_result.error
                          /\ audits[i].final_sql = calls[c].sql
        /\ (ExecutedFor(c) # {} /\ ~ExecutorRaised(c) /\ calls[c].pc \in {"audit", "returned"})
              => calls[c].execution_result.success

\* C21 witness: the data source was down, the executor was invoked once, the
\* failure was saved by the audit step and the call returned 'error'
C21_Witness ==
    \E c \in CallIds :
        /\ Returned(c)
        /\ calls[c].result.status = "error"
        /\ calls[c].execution_result.error = "OperationalError"
        /\ Cardinality(ExecutedFor(c)) = 1
        /\ Occurs(calls[c].decision_trace, "unexpected_error") = {}
        /\ \E i \in RowsOf(calls[c].audit_id) : audits[i].status = "error"

\* ------------------------------------------------------------------------
\* Component-level invocations of resolve_physical_mapping
\* ------------------------------------------------------------------------
EngineTypes == {"sqlite", "postgres"}
LogicalDefinitionIds == {1, 2}

MappingRow(i) ==
    [id : {i}, logical_definition_id : LogicalDefinitionIds, engine_type : EngineTypes,
     connection_ref : {"default"},
     sql_template : {[text |-> "t", placeholders |-> {}, bind_params |-> {}]},
     params_schema : {{}}, priority : 0..MaxPriority]

RECURSIVE MappingTables(_)
MappingTables(n) ==
    IF n = 0 THEN {<<>>}
    ELSE {Append(t, m) : t \in MappingTables(n - 1), m \in MappingRow(n)}

InitMapping ==
    /\ mappings \in UNION {MappingTables(n) : n \in 0..MaxMappings}
    /\ arg \in [logical_definition_id : LogicalDefinitionIds,
                engine_type : EngineTypes \cup {None}]
    /\ ret = NoRet
    /\ versions = <<>> /\ objects = <<>> /\ policies = <<>> /\ clock = 0
    /\ logical_defs = <<>> /\ entity_maps = <<>> /\ metric_dependencies = <<>>
    /\ source = [broken |-> FALSE, rows |-> 0]
    /\ audits = <<>> /\ executed = <<>> /\ ids = 0 /\ calls = <<>> /\ replays = <<>>

ResolvePhysicalMapping ==
    /\ ret' = [op |-> "resolve_physical_mapping",
               out |-> resolve_physical_mapping(mappings, arg.logical_definition_id,
                                                arg.engine_type)]
    /\ UNCHANGED <<versions, objects, policies, clock, arg>>
    /\ UNCHANGED pipelineVars

NextMapping == ResolvePhysicalMapping

SpecMapping == InitMapping /\ [][NextMapping]_vars

\* ---- the statements about resolve_physical_mapping ----
\* the mappings of the logical definition that pass the engine filter
EligibleMappings(table, a) ==
    {i \in 1..Len(table) :
        /\ table[i].logical_definition_id = a.logical_definition_id
        /\ (a.engine_type # None => table[i].engine_type = a.engine_type)}

C23_CandidatesAreExactlyTied ==
    (ret.op \in {"select_best_version", "resolve_version"}
        /\ ret.out.kind = "raise" /\ ret.out.error = "AmbiguityError") =>
        LET candidates == ret.out.candidates
            tied == TopTied(versions, ret.results)
        IN /\ {candidates[i].id : i \in 1..Len(candidates)} = tied
           /\ Len(candidates) = Cardinality(tied)
           /\ \A i \in 1..Len(candidates) :
                 /\ candidates[i].name = RowById(versions, candidates[i].id).version_name
                 /\ candidates[i].priority = RowById(versions, candidates[i].id).priority

\* ---- the statements about the decision trace ----
\* the stages of the pipeline, in order
StageCount == 8

\* the stage a trace entry belongs to; 9 for the entries of the returns
StageOf(step) ==
    CASE step \in {"resolve_semantic_object_start", "resolve_semantic_object_complete"} -> 1
      [] step \in {"resolve_version_start", "resolve_version_complete"} -> 2
      [] step \in {"resolve_logic_start", "resolve_logic_complete"} -> 3
      [] step = "grain_validation" -> 4
      [] step \in {"resolve_physical_mapping_start", "resolve_physical_mapping_complete"} -> 5
      [] step \in {"policy_check_start", "policy_check_complete"} -> 6
      [] step \in {"render_sql_start", "render_sql_complete"} -> 7
      [] step \in {"execution_start", "execution_complete"} -> 8
      [] OTHER -> 9

\* positions of the entries of stage k in a trace
EntriesOf(trace, k) == {i \in 1..Len(trace) : StageOf(trace[i]) = k}

\* stage k of the call ran to completion: the call went on to a later stage,
\* or, for the last two, holds their product
StageCompleted(c, k) ==
    \/ \E later \in (k + 1)..StageCount : EntriesOf(calls[c].decision_trace, later) # {}
    \/ k = 7 /\ calls[c].sql # NoSql
    \/ k = 8 /\ ExecutedFor(c) # {}

\* C24: in every query() call, each stage that runs appends one trace entry
\* before it starts and one after it completes, entries appear in the fixed
\* pipeline order, and the trace embedded in the audit row is the same
\* sequence as the trace returned to the caller.
C24_TraceBracketsEveryStage ==
    \A c \in CallIds :
        LET trace == calls[c].decision_trace IN
        /\ \A k \in 1..StageCount :
              StageCompleted(c, k) => Cardinality(EntriesOf(trace, k)) = 2
        /\ \A i, j \in 1..Len(trace) : i < j => StageOf(trace[i]) <= StageOf(trace[j])
        /\ Returned(c) =>
              \A i \in RowsOf(calls[c].audit_id) :
                  audits[i].decision_trace = calls[c].result.decision_trace

\* ------------------------------------------------------------------------
\* orchestrator.py: query() called from several threads at once
\* ------------------------------------------------------------------------
\* str(uuid.uuid4())[:8]: the values the random prefix is drawn from; the
\* calls start within one second, so the strftime part of their ids is equal
UuidPrefixes == 1..MaxCalls

ConcurrentRequests ==
    {req \in Requests : req.parameters = ParamLine
                        /\ req.question \in {<< <<"F", "P">> >>, << <<"p", "o">> >>}}

\* audit_id = self._generate_audit_id(): no call waits for another, and the
\* id is the second of the clock followed by a random prefix
StartQueryConcurrent(c, req, prefix) ==
    /\ calls[c].pc = "idle"
    /\ \A d \in 1..(c - 1) : calls[d].pc # "idle"
    /\ ids' = ids + 1
    /\ calls' = [calls EXCEPT ![c] =
                    [IdleCall EXCEPT !.pc = "resolve_object", !.request = req,
                                     !.audit_id = prefix]]
    /\ UNCHANGED <<metadataVars, audits, executed>>

NextConcurrent ==
    \E c \in CallIds :
        \/ \E req \in ConcurrentRequests, prefix \in UuidPrefixes :
              StartQueryConcurrent(c, req, prefix)
        \/ Stages(c)
        \/ AuditStage(c, TRUE)
        \/ HandleException(c, TRUE)

SpecConcurrent == Init /\ [][NextConcurrent]_vars

\* the part of a result that does not name the call
Answer(result) == [result EXCEPT !.audit_id = 0]

\* two calls are under way at once
Overlap(c, d) ==
    /\ c # d
    /\ calls[c].pc \notin {"idle", "returned", "raised"}
    /\ calls[d].pc \notin {"idle", "returned", "raised"}

\* every returned call answers as any other call with its request does, the
\* one that ran alone included
AnswersAsAlone ==
    \A c, d \in CallIds :
        (Returned(c) /\ Returned(d) /\ calls[c].request = calls[d].request) =>
            Answer(calls[c].result) = Answer(calls[d].result)

\* the ids of the calls that have started are distinct
DistinctAuditIds ==
    \A c, d \in CallIds :
        (c # d /\ calls[c].pc # "idle" /\ calls[d].pc # "idle") =>
            calls[c].audit_id # calls[d].audit_id

\* C25: in any interleaving of two or more concurrent query() calls, each
\* call returns the status, version and rendered query it would return alone,
\* with a trace of its own entries only, and the calls have distinct audit ids
\* and an audit row each.
C25_ConcurrentCallsAreIsolated ==
    /\ AnswersAsAlone
    /\ DistinctAuditIds
    /\ \A c \in CallIds :
          (Returned(c) /\ calls[c].result.status # "preview") =>
              /\ Cardinality(RowsOf(calls[c].audit_id)) = 1
              /\ \A i \in RowsOf(calls[c].audit_id) :
                    audits[i].decision_trace = calls[c].result.decision_trace

\* ---- the statements about what the pipeline writes ----
\* a step of query() or of replay()
PipelineStep == calls' # calls \/ replays' # replays

\* C26: query() and replay() only insert audit rows: every step keeps the
\* audit rows there are, in place and unchanged (a replay leaves the row it
\* replays as it was), and no step of the pipeline changes an object, version,
\* logical-definition, mapping or policy row.
C26_AuditRowsOnlyInserted ==
    [][/\ Len(audits') >= Len(audits)
       /\ \A i \in 1..Len(audits) : audits'[i] = audits[i]
       /\ PipelineStep => UNCHANGED <<objects, versions, logical_defs, mappings, policies>>]_vars

\* C26 witness: denied, failed and successful queries and a replay have each
\* written a row, and the row the replay was given is still the one it loaded
C26_Witness ==
    \E r \in ReplayIds :
        /\ Replayed(r)
        /\ load_audit(audits, replays[r].audit_id) = replays[r].original
        /\ \E i \in 1..Len(audits) : audits[i].status # "success"
        /\ Len(audits) >= 3

\* ---- the statements about a failing stage ----
\* stage k of the call was started and its collaborator failed: it raised, or
\* for the grain validator answered FAIL
StageFailed(c, k) ==
    /\ EntriesOf(calls[c].decision_trace, k) # {}
    /\ CASE k = 1 -> resolve_semantic_object(objects, calls[c].request.question).kind = "raise"
         [] k = 2 -> resolve_version(versions, calls[c].semantic_obj,
                         IF "scenario" \in DOMAIN calls[c].request.parameters.kv
                         THEN calls[c].request.parameters.kv["scenario"] ELSE NoneDict,
                         calls[c].request.timestamp, clock).kind = "raise"
         [] k = 3 -> resolve_logic(logical_defs, calls[c].version).kind = "raise"
         [] k = 4 -> grain_validate(entity_maps, calls[c].semantic_obj,
                         calls[c].request.parameters,
                         RowById(logical_defs, calls[c].logical_def).grain) = "FAIL"
         [] k = 5 -> resolve_physical_mapping(mappings, calls[c].logical_def,
                                              default_engine_type).kind = "raise"
         [] k = 6 -> PolicyAnswer(c).kind = "raise"
         [] k = 7 -> render_sql(RowById(mappings, calls[c].physical_mapping),
                                calls[c].request.parameters).kind = "raise"
         [] OTHER -> FALSE

\* the number of entries stage j leaves in the trace of a call that failed in
\* stage k
EntriesUpTo(k, j) ==
    IF j > k THEN 0
    ELSE IF j = 4 \/ j = k THEN 1
    ELSE 2

\* what the stages after k produce is absent from the call
NothingAfter(c, k) ==
    /\ k < 2 => calls[c].version = 0
    /\ k < 3 => calls[c].logical_def = 0
    /\ k < 5 => calls[c].physical_mapping = 0
    /\ k < 6 => calls[c].policy_decision = NoDecision
    /\ k < 7 => calls[c].sql = NoSql
    /\ calls[c].execution_result = NoExecution
    /\ ExecutedFor(c) = {}

\* C27: a failure at any stage of query() aborts the later stages: no later
\* stage is started and none of their collaborators is called, and the audit
\* row written for the call holds the trace up to the failure.
C27_FailureAbortsLaterStages ==
    \A c \in CallIds : \A k \in 1..(StageCount - 1) :
        StageFailed(c, k) =>
            /\ calls[c].pc \in {"except", "returned"}
            /\ \A j \in 1..StageCount :
                  Cardinality(EntriesOf(calls[c].decision_trace, j)) = EntriesUpTo(k, j)
            /\ NothingAfter(c, k)
            /\ Returned(c) =>
                  /\ calls[c].result.status \in {"denied", "error"}
                  /\ RowsOf(calls[c].audit_id) # {}
                  /\ \A i \in RowsOf(calls[c].audit_id) :
                        LET row == audits[i].decision_trace IN
                        /\ \A j \in 1..StageCount :
                              Cardinality(EntriesOf(row, j)) = EntriesUpTo(k, j)
                        /\ \A p, q \in 1..Len(row) :
                              p < q => StageOf(row[p]) <= StageOf(row[q])

\* C27 witness: calls have failed in the grain validation and in the version
\* resolution, and their rows are written
C27_Witness ==
    \E c, d \in CallIds :
        /\ Returned(c) /\ StageFailed(c, 4) /\ RowsOf(calls[c].audit_id) # {}
        /\ Returned(d) /\ StageFailed(d, 2) /\ RowsOf(calls[d].audit_id) # {}

\* ---- the statements about the row of a denied or failed call ----
\* C28: the audit row of a denied or failed query() records the id of every
\* entity resolved before the failure (object, version, logical definition,
\* physical mapping) and leaves empty only those of the stages that did not
\* complete; a policy denial is audited with all four ids.
C28_FailedRowNamesResolvedEntities ==
    \A c \in CallIds :
        (Returned(c) /\ calls[c].result.status \in {"denied", "error"}) =>
            \A i \in RowsOf(calls[c].audit_id) :
                /\ audits[i].semantic_object_id = calls[c].semantic_obj
                /\ audits[i].version_id = calls[c].version
                /\ audits[i].logical_definition_id = calls[c].logical_def
                /\ audits[i].physical_mapping_id = calls[c].physical_mapping

\* ------------------------------------------------------------------------
\* orchestrator.py: get_audit_history; sqlite_stores.py: list_audit_history
\* ------------------------------------------------------------------------
\* ExecutionContext.user_id of the rows; user_id=None of the arguments
UserIds == 0..1
NoUser == 0 - 1

\* the rows of execution_audit with the columns the listing reads
HistoryRow(i) == [audit_id : {i}, user_id : UserIds, executed_at : 1..MaxTime]

RECURSIVE HistoryTables(_)
HistoryTables(n) ==
    IF n = 0 THEN {<<>>}
    ELSE {Append(t, row) : t \in HistoryTables(n - 1), row \in HistoryRow(n)}

\* ORDER BY executed_at DESC: the orders in which the chosen rows may come,
\* rows of one executed_at in any order
OrderedByExecutedAtDesc(table, chosen) ==
    {f \in [1..Cardinality(chosen) -> chosen] :
        /\ \A p, q \in 1..Cardinality(chosen) : p # q => f[p] # f[q]
        /\ \A p, q \in 1..Cardinality(chosen) :
              p < q => table[f[p]].executed_at >= table[f[q]].executed_at}

\* LIMIT ?: the first limit rows, all of them for a negative limit
Limit(rows, limit) ==
    IF limit < 0 \/ limit >= Len(rows) THEN rows ELSE SubSeq(rows, 1, limit)

\* the lists of summaries the query may answer with; `if user_id:` adds the
\* WHERE clause for a user_id that is neither None nor 0
list_audit_history(table, limit, user_id) ==
    LET chosen == {i \in 1..Len(table) :
                      user_id \notin {NoUser, 0} => table[i].user_id = user_id}
    IN {Limit([p \in 1..Cardinality(chosen) |->
                  [audit_id |-> table[f[p]].audit_id, executed_at |-> table[f[p]].executed_at]],
              limit) : f \in OrderedByExecutedAtDesc(table, chosen)}

get_audit_history(table, limit, user_id) == list_audit_history(table, limit, user_id)

InitHistory ==
    /\ audits \in UNION {HistoryTables(n) : n \in 0..MaxAudits}
    /\ arg \in [limit : (0 - 1)..(MaxAudits + 1), user_id : UserIds \cup {NoUser}]
    /\ ret = NoRet
    /\ versions = <<>> /\ objects = <<>> /\ policies = <<>> /\ clock = 0
    /\ logical_defs = <<>> /\ mappings = <<>> /\ entity_maps = <<>> /\ metric_dependencies = <<>>
    /\ source = [broken |-> FALSE, rows |-> 0]
    /\ executed = <<>> /\ ids = 0 /\ calls = <<>> /\ replays = <<>>

GetAuditHistory ==
    /\ \E history \in get_audit_history(audits, arg.limit, arg.user_id) :
          ret' = [op |-> "get_audit_history", out |-> history]
    /\ UNCHANGED <<versions, objects, policies, clock, arg>>
    /\ UNCHANGED pipelineVars

NextHistory == GetAuditHistory

SpecHistory == InitHistory /\ [][NextHistory]_vars

\* ---- the statements about get_audit_history ----
\* the user of the row a summary was made of
UserOf(summary) == audits[summary.audit_id].user_id

\* C29: get_audit_history(limit, user_id) returns at most limit summaries;
\* whenever a user_id is given, 0 included, every summary is of a row of that
\* user; only when it is omitted are the rows of all users returned.
C29_HistoryFilteredByGivenUser ==
    ret.op = "get_audit_history" =>
        /\ Len(ret.out) <= arg.limit
        /\ arg.user_id # NoUser =>
              \A p \in 1..Len(ret.out) : UserOf(ret.out[p]) = arg.user_id
        /\ arg.user_id = NoUser =>
              \/ Len(ret.out) = arg.limit
              \/ {ret.out[p].audit_id : p \in 1..Len(ret.out)} = 1..Len(audits)

\* ------------------------------------------------------------------------
\* dependency_builder.py: DependencyBuilder
\* ------------------------------------------------------------------------
\* an expression is the sequence of its parts: text, {{ metric:NAME }} and
\* ref('NAME')
MetricName(i) == <<"Metric", i>>
Text == [kind |-> "text", name |-> <<>>]
MetricRef(i) == [kind |-> "metric", name |-> MetricName(i)]
DbtRef(i) == [kind |-> "ref", name |-> MetricName(i)]

\* METRIC_REF_PATTERN.findall and DBT_REF_PATTERN.findall, as a set
_extract_metric_names(expression) ==
    {expression[i].name : i \in {j \in 1..Len(expression) : expression[j].kind = "metric"}}
    \cup {expression[i].name : i \in {j \in 1..Len(expression) : expression[j].kind = "ref"}}

\* SQLiteMetadataStore.get_semantic_object_by_name: the first row of the name, if any
get_semantic_object_by_name(table, name) == SelectSeq(table, LAMBDA o : o.name = name)

\* list(names): the names in some order; the order decides the order of the
\* rows inserted and which of several unresolved names the error cites, not
\* whether the call raises nor the set of rows
RECURSIVE ListOf(_)
ListOf(names) ==
    IF names = {} THEN <<>>
    ELSE LET first == CHOOSE n \in names : \A m \in names : n[2] <= m[2]
         IN <<first>> \o ListOf(names \ {first})

RECURSIVE DependenciesFrom(_, _, _, _, _)
DependenciesFrom(metric_names, metric, version, object_table, version_table) ==
    IF metric_names = <<>> THEN [kind |-> "return", value |-> <<>>]
    ELSE LET upstream_metric == get_semantic_object_by_name(object_table, Head(metric_names)) IN
         IF upstream_metric = <<>>
         THEN [kind |-> "raise", error |-> "ValueError: Unresolved metric reference"]
         ELSE LET upstream_versions ==
                      get_versions_for_object(version_table, upstream_metric[1].id) IN
              IF upstream_versions = <<>>
              THEN [kind |-> "raise", error |-> "ValueError: No versions found for upstream metric"]
              ELSE LET rest == DependenciesFrom(Tail(metric_names), metric, version,
                                                object_table, version_table)
                       dependency == [upstream_metric_id |-> upstream_metric[1].id,
                                      downstream_metric_id |-> metric.id,
                                      upstream_version_id |-> upstream_versions[1].id,
                                      downstream_version_id |-> version.id]
                   IN IF rest.kind = "raise" THEN rest
                      ELSE [kind |-> "return", value |-> <<dependency>> \o rest.value]

build_dependencies(object_table, version_table, definition_table, metric_name, version_name) ==
    LET metric == get_semantic_object_by_name(object_table, metric_name) IN
    IF metric = <<>> THEN [kind |-> "raise", error |-> "ValueError: Metric not found"]
    ELSE LET named == SelectSeq(get_versions_for_object(version_table, metric[1].id),
                                LAMBDA v : v.version_name = version_name) IN
         IF named = <<>> THEN [kind |-> "raise", error |-> "ValueError: Version not found for metric"]
         ELSE LET version == named[Len(named)]
                  logical_def == get_logical_definition(definition_table, version.id)
              IN IF logical_def = <<>>
                 THEN [kind |-> "raise",
                       error |-> "ValueError: Logical definition not found for version"]
                 ELSE DependenciesFrom(ListOf(_extract_metric_names(logical_def[1].expression)),
                                       metric[1], version, object_table, version_table)

\* SQLiteMetadataStore.replace_metric_dependencies_for_version: DELETE, INSERT, commit
replace_metric_dependencies_for_version(table, metric_id, version_id, dependencies) ==
    SelectSeq(table, LAMBDA r : ~(/\ r.downstream_metric_id = metric_id
                                  /\ r.downstream_version_id = version_id))
    \o dependencies

\* detect_cycles: the graph, its keys in insertion order
DownstreamOf(dep) == <<dep.downstream_metric_id, dep.downstream_version_id>>
UpstreamOf(dep) == <<dep.upstream_metric_id, dep.upstream_version_id>>

GraphKeys(deps) == Unique([i \in 1..Len(deps) |-> DownstreamOf(deps[i])])

GraphGet(deps, node) ==
    LET rows == SelectSeq(deps, LAMBDA r : DownstreamOf(r) = node)
    IN [i \in 1..Len(rows) |-> UpstreamOf(rows[i])]

\* dfs(node, path) and its loop over graph.get(node, []); the state holds
\* visited, path (whose members are the stack) and cycles
RECURSIVE dfs(_, _, _)
RECURSIVE dfs_loop(_, _, _, _)
dfs(deps, node, st) ==
    LET entered == [visited |-> st.visited \cup {node}, path |-> Append(st.path, node),
                    cycles |-> st.cycles]
        left == dfs_loop(deps, GraphGet(deps, node), 1, entered)
    IN [left EXCEPT !.path = SubSeq(@, 1, Len(@) - 1)]

dfs_loop(deps, successors, i, st) ==
    IF i > Len(successors) THEN st
    ELSE LET nxt == successors[i] IN
         dfs_loop(deps, successors, i + 1,
             IF nxt \notin st.visited THEN dfs(deps, nxt, st)
             ELSE IF \E p \in 1..Len(st.path) : st.path[p] = nxt
                  THEN LET cycle_start == CHOOSE p \in 1..Len(st.path) :
                                              /\ st.path[p] = nxt
                                              /\ \A q \in 1..(p - 1) : st.path[q] # nxt
                       IN [st EXCEPT !.cycles =
                              Append(@, SubSeq(st.path, cycle_start, Len(st.path)))]
                  ELSE st)

RECURSIVE detect_from(_, _, _, _)
detect_from(deps, keys, i, st) ==
    IF i > Len(keys) THEN st
    ELSE detect_from(deps, keys, i + 1,
             IF keys[i] \notin st.visited THEN dfs(deps, keys[i], st) ELSE st)

detect_cycles(deps) ==
    detect_from(deps, GraphKeys(deps), 1, [visited |-> {}, path |-> <<>>, cycles |-> <<>>]).cycles

\* the loop over the versions of rebuild_all and rebuild_for_metric: versions
\* without a logical definition are skipped, each replacement is committed,
\* and a raise of build_dependencies leaves the loop
RECURSIVE RebuildVersions(_, _, _, _, _)
RebuildVersions(work, table, object_table, version_table, definition_table) ==
    IF work = <<>> THEN [kind |-> "return", table |-> table]
    ELSE LET metric == Head(work).metric
             version == Head(work).version
         IN IF get_logical_definition(definition_table, version.id) = <<>>
            THEN RebuildVersions(Tail(work), table, object_table, version_table,
                                 definition_table)
            ELSE LET deps == build_dependencies(object_table, version_table, definition_table,
                                                metric.name, version.version_name)
                 IN IF deps.kind = "raise"
                    THEN [kind |-> "raise", error |-> deps.error, table |-> table]
                    ELSE RebuildVersions(Tail(work),
                             replace_metric_dependencies_for_version(
                                 table, metric.id, version.id, deps.value),
                             object_table, version_table, definition_table)

\* cycles = self.detect_cycles(); if cycles: raise
RaiseOnCycles(rebuilt) ==
    IF rebuilt.kind = "return" /\ detect_cycles(rebuilt.table) # <<>>
    THEN [kind |-> "raise", error |-> "ValueError: Dependency cycles detected",
          table |-> rebuilt.table]
    ELSE rebuilt

WorkOf(metric, version_table) ==
    LET vs == get_versions_for_object(version_table, metric.id)
    IN [i \in 1..Len(vs) |-> [metric |-> metric, version |-> vs[i]]]

rebuild_all(table, object_table, version_table, definition_table) ==
    LET metrics == list_active_semantic_objects(object_table)
        work == Flatten([m \in 1..Len(metrics) |-> WorkOf(metrics[m], version_table)])
    IN RaiseOnCycles(RebuildVersions(work, table, object_table, version_table,
                                     definition_table))

rebuild_for_metric(table, object_table, version_table, definition_table, metric_name) ==
    LET metric == get_semantic_object_by_name(object_table, metric_name) IN
    IF metric = <<>>
    THEN [kind |-> "raise", error |-> "ValueError: Metric not found", table |-> table]
    ELSE RaiseOnCycles(RebuildVersions(WorkOf(metric[1], version_table), table, object_table,
                                       version_table, definition_table))

\* the metrics of the store: metric i has the version i and at most one logical
\* definition, whose expression refers to metrics of the store or to metric 0,
\* which the store does not hold
MetricIds == 1..MaxObjects
MetricRow(i) == [id : {i}, name : {MetricName(i)}, status : {"active", "deprecated"}]
MetricVersionRow(i) ==
    [id |-> i, semantic_object_id |-> i, version_name |-> <<"version", i>>, effective_from |-> 1]

Expressions ==
    {<<Text>>}
    \cup {<<MetricRef(n)>> : n \in 0..MaxObjects}
    \cup {<<Text, DbtRef(n)>> : n \in 0..MaxObjects}
    \cup {<<MetricRef(n), Text, DbtRef(m)>> : n \in MetricIds, m \in MetricIds}

RECURSIVE MetricTables(_)
MetricTables(n) ==
    IF n = 0 THEN {<<>>}
    ELSE {Append(t, o) : t \in MetricTables(n - 1), o \in MetricRow(n)}

\* the logical definitions: at most one for each version
RECURSIVE DefinitionTables(_)
DefinitionTables(n) ==
    IF n = 0 THEN {<<>>}
    ELSE UNION {{t} \cup {Append(t, [id |-> n, semantic_version_id |-> n, expression |-> e]) :
                            e \in Expressions} : t \in DefinitionTables(n - 1)}

InitDependency ==
    /\ objects \in MetricTables(MaxObjects)
    /\ versions = [i \in MetricIds |-> MetricVersionRow(i)]
    /\ logical_defs \in DefinitionTables(MaxObjects)
    /\ metric_dependencies = <<>>
    /\ arg = [op |-> "none"]
    /\ ret = NoRet
    /\ policies = <<>> /\ clock = 0 /\ mappings = <<>> /\ entity_maps = <<>>
    /\ source = [broken |-> FALSE, rows |-> 0]
    /\ audits = <<>> /\ executed = <<>> /\ ids = 0 /\ calls = <<>> /\ replays = <<>>

dependencyVars == <<versions, objects, policies, clock, logical_defs, mappings, entity_maps,
                    source, audits, executed, ids, calls, replays>>

RebuildAll ==
    /\ LET r == rebuild_all(metric_dependencies, objects, versions, logical_defs) IN
          /\ metric_dependencies' = r.table
          /\ ret' = [op |-> "rebuild_all", out |-> r.kind]
    /\ arg' = [op |-> "rebuild_all"]
    /\ UNCHANGED dependencyVars

RebuildForMetric(metric_name) ==
    /\ LET r == rebuild_for_metric(metric_dependencies, objects, versions, logical_defs,
                                   metric_name) IN
          /\ metric_dependencies' = r.table
          /\ ret' = [op |-> "rebuild_for_metric", out |-> r.kind]
    /\ arg' = [op |-> "rebuild_for_metric", metric_name |-> metric_name]
    /\ UNCHANGED dependencyVars

NextDependency ==
    \/ RebuildAll
    \/ \E i \in 0..MaxObjects : RebuildForMetric(MetricName(i))

SpecDependency == InitDependency /\ [][NextDependency]_vars

\* ---- the statements about the dependency rebuild ----
\* the nodes reached from a set of nodes along one or more stored edges
RECURSIVE ReachedFrom(_, _)
ReachedFrom(deps, nodes) ==
    LET more == nodes \cup {UpstreamOf(deps[i]) :
                              i \in {j \in 1..Len(deps) : DownstreamOf(deps[j]) \in nodes}}
    IN IF more = nodes THEN nodes ELSE ReachedFrom(deps, more)

\* the stored graph holds a cycle: some node is reached from its own upstreams
HasCycle(deps) ==
    \E i \in 1..Len(deps) :
        DownstreamOf(deps[i]) \in ReachedFrom(deps, {UpstreamOf(deps[i])})

\* C30: after any call of rebuild_all() or rebuild_for_metric(), whether it
\* returned or raised, the stored dependency graph holds no cycle: a rebuild
\* that would produce one raises and stores no cyclic edge.
C30_RebuildStoresNoCycle ==
    ret.op \in {"rebuild_all", "rebuild_for_metric"} => ~HasCycle(metric_dependencies)

====
